---- MODULE Spec2Model ----
(***************************************************************************)
(* A model of dragoman's structured-text translation pipeline: the text    *)
(* primitives (Extract, ReplaceMany), the preserve splitter, the JSON      *)
(* lexer and ranger, and the concurrent Translate orchestrator.            *)
(*                                                                         *)
(* A Go string is modelled as the sequence of its runes, each rune a       *)
(* one-character TLA+ string.  The rune "U" stands for a character such as *)
(* u-umlaut whose UTF-8 encoding takes two bytes; Width gives the encoded  *)
(* length, so byte offsets and rune offsets can be told apart.             *)
(***************************************************************************)
EXTENDS Integers, Sequences, FiniteSets, TLC

VARIABLES
    \* ReplaceMany harness (text/text.go)
    rInput, rRepls, rPerm, rOut, rOutPerm, rPc,
    \* JSON lexer and ranger (json/internal/lex, format/json): the document
    \* with the role of each rune, the lexer struct, the place of the lexer
    \* goroutine, the token it is sending and the state function it goes on
    \* with, the tokens channel, the ranger goroutine and the range it is
    \* sending, its two channels, and what the receiver of the ranges has
    \* extracted and replaced
    doc, lexer, lexPc, lexTok, lexState, tokensClosed,
    rangerPc, rangerRange, rangesClosed, rangeErrsClosed,
    got, lexOut,
    \* preserve harness (text/preserve): the expression and the text given
    \* to Regexp, the parts and items it returns, what Join makes of them
    pExpr, pText, pParts, pItems, pJoined, pPc,
    \* Translator.Translate: the call under study (input, ranger, options,
    \* backend, whether the caller may cancel), fixed during a behaviour
    scn,
    \* the ranger goroutine and its two channels
    rgPc, rgNext, ranges, rangeErrs,
    \* Translate itself: its position, its two channel variables that the
    \* select loop sets to nil, the translations collected, what it returns
    mainPc, rangeErrsNil, translateRangeErrsNil, translations, ret,
    \* translateRanges: the capacity of its channels, the channels, the
    \* workers and the goroutine that closes the channels
    chanCap, translated, errs, wk, closerPc,
    \* the context: done or not, and whether the caller cancelled it
    ctxDone, cancelled,
    \* the backend: the texts it was called with, whether a call failed
    sent, failed,
    \* the HTML ranger (format/html): the tokens of the document, the
    \* attribute names of the ranger's options, the next token, pos, the
    \* ranges of the current token still to send, the place of the
    \* goroutine, the ranges received, the context, the error sent, and
    \* whether the channels are closed
    hDoc, hAllowed, hIdx, hPos, hPending, hPc, hGot, hCtxDone, hErr, hClosed, hRecv,
    \* a call of text.Extract or of text.Replace: input, range, result,
    \* and the replacement text of Replace
    eInput, eRange, eOut, ePc, eRepl,
    \* a call of JSONDiff: the two maps, the order in which range visits
    \* the keys of a map, the result
    jSource, jTarget, jOrder, jOut, jPc,
    \* the two JSON lexers on one input: the input and whether it is a
    \* well-formed document, the lexer of json/internal/lex with the state
    \* function it runs next and the tokens it has sent, and the same for
    \* the nested-descent lexer
    tInput, tWF, tLexer, tState, tToks, tDescLexer, tDescState, tOld,
    \* the gcloud Service: the place of every goroutine that calls
    \* Translate, the RWMutex, the client, the token source, the clients
    \* created, and the client every call used
    gPc, gMux, gClient, gTokenSource, gCreated, gUsed,
    \* capacity the runtime gives a []rune conversion beyond its length
    runeSlack

replVars == <<rInput, rRepls, rPerm, rOut, rOutPerm, rPc>>

lexVars == <<doc, lexer, lexPc, lexTok, lexState, tokensClosed,
             rangerPc, rangerRange, rangesClosed, rangeErrsClosed,
             got, lexOut>>

presVars == <<pExpr, pText, pParts, pItems, pJoined, pPc>>

rgVars == <<rgPc, rgNext, ranges, rangeErrs>>

mainVars == <<mainPc, rangeErrsNil, translateRangeErrsNil, translations, ret>>

poolVars == <<chanCap, translated, errs, wk, closerPc>>

ctxVars == <<ctxDone, cancelled>>

backendVars == <<sent, failed>>

trVars == <<scn, rgVars, mainVars, poolVars, ctxVars, backendVars>>

htmlVars == <<hDoc, hAllowed, hIdx, hPos, hPending, hPc, hGot, hCtxDone, hErr, hClosed,
              hRecv>>

extVars == <<eInput, eRange, eOut, ePc, eRepl>>

diffVars == <<jSource, jTarget, jOrder, jOut, jPc>>

tokVars == <<tInput, tWF, tLexer, tState, tToks, tDescLexer, tDescState, tOld>>

gcVars == <<gPc, gMux, gClient, gTokenSource, gCreated, gUsed>>

vars == <<replVars, lexVars, presVars, trVars, htmlVars, extVars, diffVars, tokVars, gcVars,
          runeSlack>>

\* what the actions of one harness leave alone
replOthers == <<lexVars, presVars, trVars, htmlVars, extVars, diffVars, tokVars, gcVars,
               runeSlack>>

lexOthers == <<replVars, presVars, trVars, htmlVars, extVars, diffVars, tokVars, gcVars,
               runeSlack>>

presOthers == <<replVars, lexVars, trVars, htmlVars, extVars, diffVars, tokVars, gcVars,
               runeSlack>>

trOthers == <<replVars, lexVars, presVars, htmlVars, extVars, diffVars, tokVars, gcVars,
              runeSlack, scn>>

htmlOthers == <<replVars, lexVars, presVars, trVars, extVars, diffVars, tokVars, gcVars,
               runeSlack>>

extOthers == <<replVars, lexVars, presVars, trVars, htmlVars, diffVars, tokVars, gcVars,
               runeSlack>>

diffOthers == <<replVars, lexVars, presVars, trVars, htmlVars, extVars, tokVars, gcVars,
               runeSlack>>

tokOthers == <<replVars, lexVars, presVars, trVars, htmlVars, extVars, diffVars, gcVars,
              runeSlack>>

gcOthers == <<replVars, lexVars, presVars, trVars, htmlVars, extVars, diffVars, tokVars,
             runeSlack>>

----------------------------------------------------------------------------
(* Bounds of the model.                                                    *)

\* longest input text of the ReplaceMany harness, in runes
MaxLen == 3

\* most replacements handed to one ReplaceMany call in its harness
MaxRepls == 2

\* largest spare capacity of a rune slice that the model considers
MaxSlack == 1

\* longest run of two-byte runes in a string value of a generated document
MaxUml == 3

\* longest text handed to preserve.Regexp in its harness
MaxText == 4

\* largest argument of the option Parallel
MaxParallel == 2

\* longest text of a range translated with a Preserve expression
MaxRangeText == 3

\* longest input of a text.Extract call, in runes
MaxExtractLen == 3

\* largest offset of a range given to text.Extract
MaxOffset == 5

\* deepest nesting of objects below a key of the source given to JSONDiff
MaxDepth == 2

\* longest input, in runes, of the arbitrary inputs given to the lexers
MaxInput == 5

\* goroutines that call Translate of one gcloud Service at the same time
MaxCallers == 3

----------------------------------------------------------------------------
(* Runes and strings.                                                      *)

Min(a, b) == IF a < b THEN a ELSE b

Max(a, b) == IF a > b THEN a ELSE b

\* utf8 encoded length of a rune, as utf8.DecodeRuneInString reports it
Width(c) == IF c = "U" THEN 2 ELSE 1

\* len(s) of a Go string: its length in bytes
RECURSIVE ByteLen(_)
ByteLen(s) == IF s = <<>> THEN 0 ELSE Width(Head(s)) + ByteLen(Tail(s))

\* the bytes of a Go string: byte k of rune c is <<c, k>>
RECURSIVE Bytes(_)
Bytes(s) ==
    IF s = <<>> THEN <<>>
    ELSE [k \in 1..Width(Head(s)) |-> <<Head(s), k>>] \o Bytes(Tail(s))

\* s[lo:hi] of a sequence with 0-based half-open bounds
Slice(s, lo, hi) == SubSeq(s, lo + 1, hi)

\* unicode.IsSpace
IsSpace(c) == c \in {" ", "\n"}

\* the ASCII class [[:punct:]]
IsPunct(c) == c \in {"!", ".", ",", ":", "{", "}", "[", "]", "\"", "\\", "?"}

\* all sequences over S of length at most n
SeqsUpTo(S, n) == UNION {[1..k -> S] : k \in 0..n}

----------------------------------------------------------------------------
(* text.Range, text.Extract, text.ReplaceMany                              *)

\* Range.Len: int(r[1] - r[0])
RangeLen(r) == r[2] - r[1]

\* text.Extract over a reader positioned at the start of input.  It reads
\* r[0]+1 runes to reach the start and then Len-1 more: offsets count runes.
Extract(input, r) ==
    LET rangeLen == RangeLen(r) IN
    IF rangeLen = 0 THEN [text |-> <<>>, err |-> "nil"]
    ELSE IF rangeLen < 0 THEN [text |-> <<>>, err |-> "negative length range"]
    ELSE IF Len(input) < r[1] + 1
         THEN [text |-> <<>>, err |-> "range start after input end"]
    ELSE IF Len(input) < r[1] + rangeLen
         THEN [text |-> <<>>, err |-> "range end after input end"]
    ELSE [text |-> Slice(input, r[1], r[2]), err |-> "nil"]

\* text.ExtractString
ExtractString(input, r) == Extract(input, r)

\* the order sort.Slice leaves a short slice in: for fewer than 12 elements
\* it is an insertion sort with less(a, b) = Range[0] of a < Range[0] of b,
\* so equal starts keep the order of the argument list
RECURSIVE InsertByStart(_, _)
InsertByStart(sorted, repl) ==
    IF sorted = <<>> THEN <<repl>>
    ELSE LET last == sorted[Len(sorted)] IN
         IF repl.range[1] < last.range[1]
         THEN InsertByStart(SubSeq(sorted, 1, Len(sorted) - 1), repl) \o <<last>>
         ELSE sorted \o <<repl>>

\* the list left in the order of the argument
Unsorted(replacements) == replacements

RECURSIVE SortByStart(_)
SortByStart(replacements) ==
    IF replacements = <<>> THEN <<>>
    ELSE InsertByStart(
            SortByStart(SubSeq(replacements, 1, Len(replacements) - 1)),
            replacements[Len(replacements)])

\* the rune NUL that the spare capacity of a fresh []rune holds
NUL == "\\0"

\* output[:hi] of the rune slice output, whose capacity is cap: slicing
\* beyond the capacity panics, slicing beyond the length but within the
\* capacity yields the zeroed spare elements
SliceTo(output, hi, cap) ==
    IF hi < 0 \/ hi > cap THEN [ok |-> FALSE, s |-> <<>>]
    ELSE IF hi <= Len(output) THEN [ok |-> TRUE, s |-> SubSeq(output, 1, hi)]
    ELSE [ok |-> TRUE, s |-> output \o [k \in 1..(hi - Len(output)) |-> NUL]]

\* output[lo:]
SliceFrom(output, lo) ==
    IF lo < 0 \/ lo > Len(output) THEN [ok |-> FALSE, s |-> <<>>]
    ELSE [ok |-> TRUE, s |-> SubSeq(output, lo + 1, Len(output))]

\* the loop of ReplaceMany over the sorted replacements
RECURSIVE ReplaceLoop(_, _, _, _, _)
ReplaceLoop(input, output, offset, repls, slack) ==
    IF repls = <<>> THEN [out |-> output, err |-> "nil"]
    ELSE
      LET repl == Head(repls)
          pre  == SliceTo(output, repl.range[1] + offset, Len(output) + slack)
          post == SliceFrom(output, repl.range[2] + offset)
      IN
      IF ~pre.ok \/ ~post.ok THEN [out |-> <<>>, err |-> "panic"]
      ELSE
        LET spliced == pre.s \o repl.text \o post.s
            org     == ExtractString(input, repl.range)
        IN
        IF org.err # "nil" THEN [out |-> <<>>, err |-> org.err]
        ELSE ReplaceLoop(input, spliced,
                         offset + (Len(repl.text) - Len(org.text)),
                         Tail(repls), slack)

\* text.ReplaceMany
ReplaceMany(input, replacements) ==
    ReplaceLoop(input, input, 0, SortByStart(replacements), runeSlack)

----------------------------------------------------------------------------
(* Package preserve.  Two expressions stand for the regular expressions    *)
(* given to it: "brace", a placeholder {[a-z]+?} between braces, and       *)
(* "word", the literal X.  Neither matches the empty string.               *)

Exprs == {"brace", "word"}

IsLetter(c) == c \in {"a", "b", "U"}

\* the offset at which a run of letters that starts at offset i ends
RECURSIVE LettersEnd(_, _)
LettersEnd(text, i) ==
    IF i < Len(text) /\ IsLetter(text[i + 1]) THEN LettersEnd(text, i + 1) ELSE i

\* the end of the match of expr that starts at offset i of text, -1 if
\* none starts there
MatchAt(expr, text, i) ==
    IF expr = "word"
    THEN IF text[i + 1] = "X" THEN i + 1 ELSE -1
    ELSE IF text[i + 1] # "{" THEN -1
         ELSE LET e == LettersEnd(text, i + 1) IN
              IF e > i + 1 /\ e < Len(text) /\ text[e + 1] = "}" THEN e + 1 ELSE -1

\* Regexp.FindAllStringIndex(text, -1): the successive non-overlapping
\* matches from offset i on, leftmost first
RECURSIVE FindAllFrom(_, _, _)
FindAllFrom(expr, text, i) ==
    IF i >= Len(text) THEN <<>>
    ELSE LET e == MatchAt(expr, text, i) IN
         IF e < 0 THEN FindAllFrom(expr, text, i + 1)
         ELSE <<<<i, e>>>> \o FindAllFrom(expr, text, e)

FindAllStringIndex(expr, text) == FindAllFrom(expr, text, 0)

\* the loop of preserve.Regexp over the matches
RECURSIVE RegexpLoop(_, _, _, _, _, _)
RegexpLoop(text, matches, textStart, partIndex, parts, items) ==
    IF matches = <<>>
    THEN [parts |-> IF textStart < Len(text)
                    THEN Append(parts, Slice(text, textStart, Len(text)))
                    ELSE parts,
          items |-> items]
    ELSE LET match == Head(matches)
             t     == Slice(text, textStart, match[1])
             index == IF t # <<>> THEN partIndex + 1 ELSE partIndex
         IN
         RegexpLoop(text, Tail(matches), match[2], index,
                    IF t # <<>> THEN Append(parts, t) ELSE parts,
                    Append(items, [text |-> Slice(text, match[1], match[2]),
                                   index |-> index]))

\* a Regexp whose items count from one
ItemsIndexedFromOne(expr, text) ==
    LET r == RegexpLoop(text, FindAllStringIndex(expr, text), 0, 0, <<>>, <<>>) IN
    [parts |-> r.parts,
     items |-> [k \in 1..Len(r.items) |-> [r.items[k] EXCEPT !.index = @ + 1]]]

\* preserve.Regexp
Regexp(expr, text) ==
    RegexpLoop(text, FindAllStringIndex(expr, text), 0, 0, <<>>, <<>>)

RECURSIVE Concat(_)
Concat(parts) == IF parts = <<>> THEN <<>> ELSE Head(parts) \o Concat(Tail(parts))

\* the position in items of the first item with Index i, 0 if there is none
FirstWithIndex(items, i) ==
    IF \E j \in 1..Len(items) : items[j].index = i
    THEN CHOOSE j \in 1..Len(items) :
            /\ items[j].index = i
            /\ \A k \in 1..(j - 1) : items[k].index # i
    ELSE 0

\* the loop of preserve.Join over the parts: before part i (counted from 0)
\* it writes the first item left whose Index is i and drops the items up
\* to and including that one
RECURSIVE JoinLoop(_, _, _)
JoinLoop(parts, i, items) ==
    IF i >= Len(parts) THEN <<>>
    ELSE LET j == FirstWithIndex(items, i) IN
         IF j = 0 THEN parts[i + 1] \o JoinLoop(parts, i + 1, items)
         ELSE items[j].text \o parts[i + 1]
                \o JoinLoop(parts, i + 1, SubSeq(items, j + 1, Len(items)))

\* preserve.Join
Join(parts, items) ==
    IF Len(items) = 0 THEN Concat(parts) ELSE JoinLoop(parts, 0, items)

----------------------------------------------------------------------------
(* The JSON lexer (json/internal/lex).  The lexer struct is a record:      *)
(* input is what the reader has not delivered yet, bufferedInput the runes *)
(* read and not yet ignored; bufPos, consumed and width count bytes.       *)

\* the rune eof = rune(-1)
eof == "EOF"

\* Lex: the lexer over the reader r
NewLexer(r) ==
    [input |-> r, bufferedInput |-> <<>>, bufPos |-> 0, consumed |-> 0, width |-> 0]

\* the number of runes that make up the first n bytes of s
RECURSIVE RunesIn(_, _)
RunesIn(s, n) ==
    IF n <= 0 \/ s = <<>> THEN 0 ELSE 1 + RunesIn(Tail(s), n - Width(Head(s)))

\* s[:n] and s[n:] of a Go string, n a byte offset on a rune boundary
BytePrefix(s, n) == SubSeq(s, 1, RunesIn(s, n))

ByteSuffix(s, n) == SubSeq(s, RunesIn(s, n) + 1, Len(s))

\* lexer.pos
LexPos(l) == l.consumed + l.bufPos

\* lexer.ignore
LexIgnore(l) ==
    [l EXCEPT !.bufferedInput = ByteSuffix(l.bufferedInput, l.bufPos),
              !.consumed = l.consumed + l.bufPos,
              !.bufPos = 0]

\* lexer.backup
LexBackup(l) == [l EXCEPT !.bufPos = l.bufPos - l.width]

\* lexer.advance
LexAdvance(l, n) == [l EXCEPT !.bufPos = l.bufPos + n]

\* lexer.readRune, called when the buffer is used up: one more rune of the
\* reader, or nothing at its end (an in-memory reader fails with io.EOF only)
LexFill(l) ==
    IF l.bufPos >= ByteLen(l.bufferedInput) /\ l.input # <<>>
    THEN [l EXCEPT !.bufferedInput = l.bufferedInput \o <<Head(l.input)>>,
                   !.input = Tail(l.input)]
    ELSE l

\* lexer.next: the lexer after the call and the rune r it returns
LexNext(l) ==
    LET f == LexFill(l) IN
    IF f.bufPos >= ByteLen(f.bufferedInput)
    THEN [l |-> [f EXCEPT !.width = 0], r |-> eof]
    ELSE LET r == f.bufferedInput[RunesIn(f.bufferedInput, f.bufPos) + 1] IN
         [l |-> [f EXCEPT !.width = Width(r), !.bufPos = f.bufPos + Width(r)],
          r |-> r]

\* lexer.skipUntil
RECURSIVE LexSkipUntil(_, _)
LexSkipUntil(l, find) ==
    LET n == LexNext(l) IN
    IF n.r = eof THEN [l |-> n.l, r |-> eof, ok |-> FALSE]
    ELSE IF n.r \in find THEN [l |-> n.l, r |-> n.r, ok |-> TRUE]
    ELSE LexSkipUntil(n.l, find)

\* lexer.skipWhitespace
RECURSIVE LexSkipWhitespace(_)
LexSkipWhitespace(l) ==
    LET n == LexNext(l) IN
    IF n.r = eof THEN LexBackup(n.l)
    ELSE IF ~IsSpace(n.r) THEN LexBackup(n.l)
    ELSE LexSkipWhitespace(n.l)

NoToken == [type |-> "none", pos |-> 0, value |-> <<>>]

\* lexer.emit: the token sent and the lexer after the ignore that follows
LexEmit(l, tt) ==
    LET val == BytePrefix(l.bufferedInput, l.bufPos) IN
    [l |-> LexIgnore(l),
     tok |-> [type |-> tt, pos |-> LexPos(l) - ByteLen(val), value |-> val]]

\* an EOF token sent without the ignore before it
EOFAtTokenStart(l) ==
    LET e == LexEmit(l, "EOF") IN
    [l |-> e.l, tok |-> e.tok, next |-> "nil"]

\* lexer.emitEOF followed by return nil
LexEmitEOF(l) ==
    LET e == LexEmit(LexIgnore(l), "EOF") IN
    [l |-> e.l, tok |-> e.tok, next |-> "nil"]

\* a loop that takes the first double quote for the closing one
FirstQuoteCloses(l) ==
    LET s == LexSkipUntil(l, {"\""}) IN [l |-> s.l, ok |-> s.ok]

\* the loop L of lexString: find the closing double quote, taking the rune
\* after a backslash whatever it is
RECURSIVE LexFindClose(_)
LexFindClose(l) ==
    LET s == LexSkipUntil(l, {"\"", "\\"}) IN
    IF ~s.ok THEN [l |-> s.l, ok |-> FALSE]
    ELSE IF s.r = "\\"
         THEN LET n == LexNext(s.l) IN
              IF n.r = eof THEN [l |-> n.l, ok |-> FALSE]
              ELSE LexFindClose(n.l)
    ELSE [l |-> s.l, ok |-> TRUE]

\* a lexer that takes no string for a property key
KeysAreValues(l) ==
    LET str == BytePrefix(l.bufferedInput, l.bufPos)
        pos == LexPos(l) - ByteLen(str)
    IN [l |-> l, tok |-> [type |-> "String", pos |-> pos, value |-> str],
        next |-> "lexString"]

\* what lexString does once the closing quote is read: a string followed by
\* a colon (whitespace allowed before it) is a property key and is dropped,
\* any other string is sent as a String token
LexKeyOrValue(l) ==
    LET str == BytePrefix(l.bufferedInput, l.bufPos)
        pos == LexPos(l) - ByteLen(str)
        n   == LexNext(LexSkipWhitespace(l))
    IN
    IF n.r = ":"
    THEN [l |-> n.l, tok |-> NoToken, next |-> "lexString"]
    ELSE [l |-> LexBackup(n.l),
          tok |-> [type |-> "String", pos |-> pos, value |-> str],
          next |-> "lexString"]

\* the state function lexString: the lexer after the call, the token the
\* call sends (NoToken if none) and the state function it returns
LexString(l) ==
    LET open == LexSkipUntil(l, {"\""}) IN
    IF ~open.ok THEN LexEmitEOF(open.l)
    ELSE LET c == LexFindClose(LexAdvance(LexIgnore(LexBackup(open.l)), 1)) IN
         IF ~c.ok THEN LexEmitEOF(c.l)
         ELSE LexKeyOrValue(c.l)

\* the range of the token with its quotes
WholeToken(tok) == <<tok.pos, tok.pos + ByteLen(tok.value)>>

\* ranger.Ranges of format/json: the range of a String token
TokenRange(tok) == <<tok.pos + 1, tok.pos + ByteLen(tok.value) - 1>>

----------------------------------------------------------------------------
(* Well-formed JSON documents.  A document is a sequence of records, the   *)
(* rune c and its role in the document: "key" for every rune from the      *)
(* opening quote of a property key through the colon after it, "vq" for    *)
(* the two quotes of a string value, "vb" for the runes between them, "x"  *)
(* for everything else.  The lexer reads the runes only.                   *)

Ch(s, role) == [i \in 1..Len(s) |-> [c |-> s[i], role |-> role]]

Runes(d) == [i \in 1..Len(d) |-> d[i].c]

\* the role of every byte of the document
RECURSIVE ByteRoles(_)
ByteRoles(d) ==
    IF d = <<>> THEN <<>>
    ELSE [k \in 1..Width(Head(d).c) |-> Head(d).role] \o ByteRoles(Tail(d))

Umls(n) == [i \in 1..n |-> "U"]

KeyBodies == {<<"k">>, <<"U">>, <<"\\", "\"">>}

StrBodies ==
    {<<>>, <<"a">>, <<"a", " ">>, <<"\\", "\"">>, <<"\\", "\\">>, <<"a", ":">>}
        \cup {Umls(n) : n \in 1..MaxUml}

Blanks == {<<>>, <<" ">>}

KeyLit(k, ws) == Ch(<<"\"">> \o k \o <<"\"">> \o ws \o <<":">>, "key")

ValStr(b) == Ch(<<"\"">>, "vq") \o Ch(b, "vb") \o Ch(<<"\"">>, "vq")

\* a number, a boolean and null
Literals == {<<"1">>, <<"t", "r", "u", "e">>, <<"n", "u", "l", "l">>}

Scalars == {ValStr(b) : b \in StrBodies} \cup {Ch(n, "x") : n \in Literals}

\* "key" : value with optional blanks before and after the colon
SpacedMembers ==
    {KeyLit(k, ws) \o Ch(wa, "x") \o v :
        k \in KeyBodies, ws \in Blanks, wa \in Blanks, v \in Scalars}

PlainMembers == {KeyLit(k, <<>>) \o v : k \in KeyBodies, v \in Scalars}

Elems ==
    {ValStr(<<"a">>), ValStr(<<"U">>), ValStr(<<"\\", "\"">>)}
        \cup {Ch(n, "x") : n \in Literals}

Arrays ==
    {Ch(<<"[", "]">>, "x")}
        \cup {Ch(<<"[">>, "x") \o e \o Ch(<<"]">>, "x") : e \in Elems}
        \cup {Ch(<<"[">>, "x") \o e1 \o Ch(<<",", " ">>, "x") \o e2 \o Ch(<<"]">>, "x") :
                e1 \in Elems, e2 \in Elems}

Obj1(m) == Ch(<<"{">>, "x") \o m \o Ch(<<"}">>, "x")

Obj2(m1, m2) == Ch(<<"{">>, "x") \o m1 \o Ch(<<",">>, "x") \o m2 \o Ch(<<"}">>, "x")

Nested == {Obj1(m) : m \in PlainMembers} \cup Arrays

JSONDocs ==
    {<<>>, Ch(<<"{", "}">>, "x"), Ch(<<" ">>, "x")}
        \cup Scalars
        \cup Arrays
        \cup {Obj1(m) : m \in SpacedMembers}
        \cup {Obj2(m1, m2) : m1 \in PlainMembers, m2 \in PlainMembers}
        \cup {Obj1(KeyLit(k, <<>>) \o n) : k \in KeyBodies, n \in Nested}
        \cup {Obj2(KeyLit(<<"k">>, <<>>) \o n, m) :
                n \in Arrays, m \in {KeyLit(<<"k">>, <<" ">>) \o ValStr(<<"a">>)}}

----------------------------------------------------------------------------
(* The lexer goroutine, the goroutine of the JSON ranger, and a receiver   *)
(* that does with every range what a worker of Translate does first:       *)
(* Extract the text; when the range channel is closed it replaces every    *)
(* range by a fixed text with ReplaceMany.                                 *)

LexInit ==
    /\ doc \in JSONDocs
    /\ lexer = NewLexer(Runes(doc))
    /\ lexPc = "run"
    /\ lexTok = NoToken
    /\ lexState = "lexString"
    /\ tokensClosed = FALSE
    /\ rangerPc = "recv"
    /\ rangerRange = <<0, 0>>
    /\ rangesClosed = FALSE
    /\ rangeErrsClosed = FALSE
    /\ got = <<>>
    /\ lexOut = [out |-> <<>>, err |-> "none"]

LexIdle ==
    /\ doc = <<>>
    /\ lexer = NewLexer(<<>>)
    /\ lexPc = "idle"
    /\ lexTok = NoToken
    /\ lexState = "nil"
    /\ tokensClosed = FALSE
    /\ rangerPc = "idle"
    /\ rangerRange = <<0, 0>>
    /\ rangesClosed = FALSE
    /\ rangeErrsClosed = FALSE
    /\ got = <<>>
    /\ lexOut = [out |-> <<>>, err |-> "none"]

\* lexer.lex: one call of the state function, up to the token it sends
LexRun ==
    /\ lexPc = "run"
    /\ LET res == LexString(lexer) IN
        /\ lexer' = res.l
        /\ lexTok' = res.tok
        /\ lexState' = res.next
        /\ lexPc' = IF res.tok = NoToken THEN "run" ELSE "send"
    /\ UNCHANGED <<lexOthers, doc, tokensClosed, rangerPc, rangerRange, rangesClosed,
                   rangeErrsClosed, got, lexOut>>

\* the send on the unbuffered tokens channel meets the receive of the
\* ranger's loop; the ranger turns a String token into a range and returns
\* on EOF (the lexer sends no Error token when its reader cannot fail)
RangerReceiveToken ==
    /\ lexPc = "send"
    /\ rangerPc = "recv"
    /\ lexPc' = IF lexState = "nil" THEN "close" ELSE "run"
    /\ IF lexTok.type = "String"
       THEN rangerPc' = "send" /\ rangerRange' = TokenRange(lexTok)
       ELSE rangerPc' = "return" /\ UNCHANGED rangerRange
    /\ UNCHANGED <<lexOthers, doc, lexer, lexTok, lexState, tokensClosed, rangesClosed,
                   rangeErrsClosed, got, lexOut>>

\* lexer.lex: the deferred close(l.tokens)
LexClose ==
    /\ lexPc = "close"
    /\ tokensClosed' = TRUE
    /\ lexPc' = "done"
    /\ UNCHANGED <<lexOthers, doc, lexer, lexTok, lexState, rangerPc, rangerRange,
                   rangesClosed, rangeErrsClosed, got, lexOut>>

\* the ranger's send on the unbuffered ranges channel meets the receiver,
\* which extracts the text of the range
ReceiveRange ==
    /\ rangerPc = "send"
    /\ got' = Append(got, [range |-> rangerRange,
                           ext |-> Extract(Runes(doc), rangerRange)])
    /\ rangerPc' = "recv"
    /\ UNCHANGED <<lexOthers, doc, lexer, lexPc, lexTok, lexState, tokensClosed,
                   rangerRange, rangesClosed, rangeErrsClosed, lexOut>>

\* the ranger goroutine returns: close(errs), close(ranges)
RangerReturn ==
    /\ rangerPc = "return"
    /\ rangerPc' = "done"
    /\ rangesClosed' = TRUE
    /\ rangeErrsClosed' = TRUE
    /\ UNCHANGED <<lexOthers, doc, lexer, lexPc, lexTok, lexState, tokensClosed,
                   rangerRange, got, lexOut>>

\* the text the receiver puts in the place of every range
Mark == <<"x", "y">>

\* the receiver sees the range channel closed and replaces the ranges
ReplaceRanges ==
    /\ rangesClosed
    /\ lexOut.err = "none"
    /\ lexOut' = ReplaceMany(Runes(doc),
                    [i \in 1..Len(got) |-> [range |-> got[i].range, text |-> Mark]])
    /\ UNCHANGED <<lexOthers, doc, lexer, lexPc, lexTok, lexState, tokensClosed,
                   rangerPc, rangerRange, rangesClosed, rangeErrsClosed, got>>

----------------------------------------------------------------------------
(* The nested-descent lexer (json/json_test.go).  Its lexer struct and its *)
(* methods next, backup, ignore, pos, skipWhitespace, emit and emitEOF are *)
(* those of json/internal/lex.  A state function gives the lexer after the *)
(* call, the tokens the call sends and the state function it returns.      *)

\* lexer.errorf: the Error token, with the position; the text of the
\* message is not modelled
ErrorToken(l) == [type |-> "Error", pos |-> LexPos(l), value |-> <<"e", "r", "r">>]

\* lexer.must: the next rune has to be r; if not, backup and invalid
DescMust(l, r) ==
    LET n == LexNext(l) IN
    IF n.r # r
    THEN [l |-> LexBackup(n.l), ok |-> FALSE, toks |-> <<ErrorToken(LexBackup(n.l))>>]
    ELSE [l |-> n.l, ok |-> TRUE, toks |-> <<>>]

DescLexDocument(l) ==
    LET n == LexNext(LexSkipWhitespace(l)) IN
    IF n.r = "\"" THEN [l |-> LexBackup(n.l), toks |-> <<>>, next |-> "lexString"]
    ELSE IF n.r = "[" THEN [l |-> LexBackup(n.l), toks |-> <<>>, next |-> "lexArray"]
    ELSE [l |-> n.l, toks |-> <<>>, next |-> "lexIgnore"]

DescLexIgnore(l) ==
    LET n == LexNext(LexSkipWhitespace(l)) IN
    IF n.r = eof
    THEN LET e == LexEmitEOF(n.l) IN [l |-> e.l, toks |-> <<e.tok>>, next |-> "nil"]
    ELSE IF n.r = "\"" THEN [l |-> LexBackup(n.l), toks |-> <<>>, next |-> "lexProperty"]
    ELSE [l |-> n.l, toks |-> <<>>, next |-> "lexIgnore"]

DescLexProperty(l) ==
    LET n == LexNext(l) IN
    IF n.r = "\"" THEN [l |-> LexBackup(n.l), toks |-> <<>>, next |-> "lexPropertyName"]
    ELSE [l |-> LexBackup(n.l), toks |-> <<ErrorToken(LexBackup(n.l))>>, next |-> "nil"]

\* the loop of lexPropertyName
RECURSIVE DescNameLoop(_)
DescNameLoop(l) ==
    LET n == LexNext(l) IN
    IF n.r = "\\" THEN DescNameLoop(LexNext(n.l).l)
    ELSE IF n.r = "\""
    THEN LET c == LexNext(LexSkipWhitespace(n.l)) IN
         IF c.r # ":"
         THEN [l |-> LexBackup(c.l), toks |-> <<ErrorToken(LexBackup(c.l))>>,
               next |-> "nil"]
         ELSE LET v == LexNext(LexSkipWhitespace(c.l)) IN
              IF v.r = "\""
              THEN [l |-> LexIgnore(LexBackup(v.l)), toks |-> <<>>, next |-> "lexString"]
              ELSE IF v.r = "["
              THEN [l |-> LexBackup(v.l), toks |-> <<>>, next |-> "lexArray"]
              ELSE [l |-> v.l, toks |-> <<>>, next |-> "lexIgnore"]
    ELSE IF n.r = eof THEN [l |-> n.l, toks |-> <<ErrorToken(n.l)>>, next |-> "nil"]
    ELSE DescNameLoop(n.l)

DescLexPropertyName(l) ==
    LET m == DescMust(l, "\"") IN
    IF ~m.ok THEN [l |-> m.l, toks |-> m.toks, next |-> "nil"]
    ELSE DescNameLoop(m.l)

\* the loop of lexString
RECURSIVE DescStringLoop(_)
DescStringLoop(l) ==
    LET n == LexNext(l) IN
    IF n.r = "\\" THEN DescStringLoop(LexNext(n.l).l)
    ELSE IF n.r = "\""
    THEN LET e == LexEmit(n.l, "String") IN
         [l |-> e.l, toks |-> <<e.tok>>, next |-> "lexIgnore"]
    ELSE IF n.r = eof
    THEN [l |-> LexBackup(n.l), toks |-> <<ErrorToken(LexBackup(n.l))>>, next |-> "nil"]
    ELSE DescStringLoop(n.l)

DescLexString(l) ==
    LET m == DescMust(l, "\"") IN
    IF ~m.ok THEN [l |-> m.l, toks |-> m.toks, next |-> "nil"]
    ELSE DescStringLoop(m.l)

DescLexArray(l) ==
    LET m == DescMust(l, "[") IN
    IF ~m.ok THEN [l |-> m.l, toks |-> m.toks, next |-> "nil"]
    ELSE LET n == LexNext(LexSkipWhitespace(m.l)) IN
         IF n.r = "\""
         THEN [l |-> LexIgnore(LexBackup(n.l)), toks |-> <<>>, next |-> "lexArrayString"]
         ELSE [l |-> LexBackup(n.l), toks |-> <<>>, next |-> "lexIgnore"]

\* lexArrayString after its call of lexString: a comma and a double quote
\* lead to the next string of the array
DescAfterArrayString(str) ==
    IF str.next = "nil" THEN str
    ELSE LET n == LexNext(LexSkipWhitespace(str.l)) IN
         IF n.r = ","
         THEN LET v == LexNext(LexSkipWhitespace(n.l)) IN
              IF v.r = "\""
              THEN [l |-> LexIgnore(LexBackup(v.l)), toks |-> str.toks,
                    next |-> "lexArrayString"]
              ELSE [l |-> v.l, toks |-> str.toks, next |-> "lexIgnore"]
         ELSE [l |-> n.l, toks |-> str.toks, next |-> "lexIgnore"]

\* lexArrayString: lexString is called once, its result is what the rest
\* of the function works on
DescLexArrayString(l) ==
    CHOOSE res \in {DescAfterArrayString(str) : str \in {DescLexString(l)}} : TRUE

\* one call of the state function named
DescState(l, state) ==
    CASE state = "lexDocument" -> DescLexDocument(l)
      [] state = "lexIgnore" -> DescLexIgnore(l)
      [] state = "lexProperty" -> DescLexProperty(l)
      [] state = "lexPropertyName" -> DescLexPropertyName(l)
      [] state = "lexString" -> DescLexString(l)
      [] state = "lexArray" -> DescLexArray(l)
      [] state = "lexArrayString" -> DescLexArrayString(l)

----------------------------------------------------------------------------
(* Harness of the two lexers: the lexer of json/internal/lex runs one      *)
(* state function at a time until it closes its channel, then the          *)
(* nested-descent lexer does the same on the same input; every token sent  *)
(* is received.                                                            *)

InputRunes == {"\"", "\\", ":", "a", " ", "U"}

\* well-formed documents beyond JSONDocs: a string after a blank, arrays in
\* arrays, an object in an array, a string after a nested array
MixedDocs ==
    {Ch(<<" ">>, "x") \o ValStr(<<"a">>),
     Ch(<<"[", "[">>, "x") \o ValStr(<<"a">>) \o Ch(<<"]", "]">>, "x"),
     Ch(<<"[">>, "x") \o Obj1(KeyLit(<<"k">>, <<>>) \o ValStr(<<"a">>)) \o Ch(<<"]">>, "x"),
     Ch(<<"[", "[", "]", ",">>, "x") \o ValStr(<<"a">>) \o Ch(<<"]">>, "x")}

\* both lexers at their start on the input
TokStart ==
    /\ tLexer = NewLexer(tInput)
    /\ tState = "lexString"
    /\ tToks = <<>>
    /\ tDescLexer = NewLexer(tInput)
    /\ tDescState = "lexDocument"
    /\ tOld = <<>>

TokInit ==
    /\ \/ tInput \in {Runes(d) : d \in JSONDocs \cup MixedDocs} /\ tWF = TRUE
       \/ tInput \in SeqsUpTo(InputRunes, MaxInput) /\ tWF = FALSE
    /\ TokStart

TokIdle ==
    /\ tInput = <<>>
    /\ tWF = FALSE
    /\ tLexer = NewLexer(<<>>)
    /\ tState = "idle"
    /\ tToks = <<>>
    /\ tDescLexer = NewLexer(<<>>)
    /\ tDescState = "idle"
    /\ tOld = <<>>

GcIdle ==
    /\ gPc = <<>>
    /\ gMux = [writer |-> 0, readers |-> {}]
    /\ gClient = 0
    /\ gTokenSource = FALSE
    /\ gCreated = 0
    /\ gUsed = <<>>

\* lexer.lex: one call of lexString; the token it sends is received
LexStep ==
    /\ tState = "lexString"
    /\ LET res == LexString(tLexer) IN
        /\ tLexer' = res.l
        /\ tToks' = IF res.tok = NoToken THEN tToks ELSE Append(tToks, res.tok)
        /\ tState' = res.next
    /\ UNCHANGED <<tokOthers, tInput, tWF, tDescLexer, tDescState, tOld>>

\* lexer.lex: the loop has ended, the deferred close(l.tokens) runs
LexCloseTokens ==
    /\ tState = "nil"
    /\ tState' = "closed"
    /\ UNCHANGED <<tokOthers, tInput, tWF, tLexer, tToks, tDescLexer, tDescState, tOld>>

\* lexer.lex of the nested-descent lexer: one call of a state function;
\* the tokens it sends are received
DescStep ==
    /\ tState = "closed"
    /\ tDescState \notin {"nil", "closed", "idle"}
    /\ LET res == DescState(tDescLexer, tDescState) IN
        /\ tDescLexer' = res.l
        /\ tOld' = tOld \o res.toks
        /\ tDescState' = res.next
    /\ UNCHANGED <<tokOthers, tInput, tWF, tLexer, tState, tToks>>

\* the deferred close(l.tokens) of the nested-descent lexer
DescCloseTokens ==
    /\ tDescState = "nil"
    /\ tDescState' = "closed"
    /\ UNCHANGED <<tokOthers, tInput, tWF, tLexer, tState, tToks, tDescLexer, tOld>>

----------------------------------------------------------------------------
(* The gcloud Service (service/gcloud).  Every caller is a goroutine that  *)
(* calls Service.Translate once.  gMux is svc.mux: the goroutine that      *)
(* holds the write lock (0 if none) and those that hold the read lock.     *)
(* gClient is svc.client, 0 for nil, otherwise the number of the client;   *)
(* gTokenSource tells whether svc.tokenSource is set ("given" by an        *)
(* option, "made" by the factory), or is nil with a factory ("factory")    *)
(* or without ("none").                                                    *)

Callers == 1..MaxCallers

GcInit ==
    /\ gPc = [c \in Callers |-> "ensure"]
    /\ gMux = [writer |-> 0, readers |-> {}]
    /\ gClient = 0
    /\ gTokenSource \in {"given", "factory", "none"}
    /\ gCreated = 0
    /\ gUsed = <<>>

\* a goroutine has called mux.Lock() and waits for the lock
WriterWaits == \E c \in Callers : gPc[c] = "locking"

\* ensure calls initialized: svc.mux.RLock(), which waits while a writer
\* holds the lock or waits for it
GcRLock(c) ==
    /\ gPc[c] = "ensure"
    /\ gMux.writer = 0
    /\ ~WriterWaits
    /\ gMux' = [gMux EXCEPT !.readers = @ \cup {c}]
    /\ gPc' = [gPc EXCEPT ![c] = "initialized"]
    /\ UNCHANGED <<gcOthers, gClient, gTokenSource, gCreated, gUsed>>

\* initialized returns svc.client != nil and unlocks; ensure returns nil if
\* it is true and calls init otherwise
GcInitialized(c) ==
    /\ gPc[c] = "initialized"
    /\ gMux' = [gMux EXCEPT !.readers = @ \ {c}]
    /\ gPc' = [gPc EXCEPT ![c] = IF gClient # 0 THEN "use" ELSE "init"]
    /\ UNCHANGED <<gcOthers, gClient, gTokenSource, gCreated, gUsed>>

\* init: svc.mux.Lock() is called; it returns at once if the lock is free
GcLock(c) ==
    /\ gPc[c] = "init"
    /\ IF gMux.writer = 0 /\ gMux.readers = {}
       THEN /\ gMux' = [gMux EXCEPT !.writer = c]
            /\ gPc' = [gPc EXCEPT ![c] = "tokenSource"]
       ELSE /\ gPc' = [gPc EXCEPT ![c] = "locking"]
            /\ UNCHANGED gMux
    /\ UNCHANGED <<gcOthers, gClient, gTokenSource, gCreated, gUsed>>

\* svc.mux.Lock() returns to a goroutine that waited
GcLockAcquire(c) ==
    /\ gPc[c] = "locking"
    /\ gMux.writer = 0
    /\ gMux.readers = {}
    /\ gMux' = [gMux EXCEPT !.writer = c]
    /\ gPc' = [gPc EXCEPT ![c] = "tokenSource"]
    /\ UNCHANGED <<gcOthers, gClient, gTokenSource, gCreated, gUsed>>

\* init, lines 263-269: the token source is made by the factory if there
\* is none; the factory may fail, init then returns its error and the
\* deferred Unlock runs
GcTokenSource(c) ==
    /\ gPc[c] = "tokenSource"
    /\ gMux.writer = c
    /\ \/ /\ gTokenSource' = IF gTokenSource = "factory" THEN "made" ELSE gTokenSource
          /\ gPc' = [gPc EXCEPT ![c] = "newClient"]
          /\ UNCHANGED gMux
       \/ /\ gTokenSource = "factory"
          /\ gPc' = [gPc EXCEPT ![c] = "failed"]
          /\ gMux' = [gMux EXCEPT !.writer = 0]
          /\ UNCHANGED gTokenSource
    /\ UNCHANGED <<gcOthers, gClient, gCreated, gUsed>>

\* init, lines 271-283: with a token source newClient is called and its
\* client assigned to svc.client, or its error returned; without a client
\* init returns ErrNoCredentials; the deferred Unlock runs
GcNewClient(c) ==
    /\ gPc[c] = "newClient"
    /\ gMux.writer = c
    /\ \/ /\ gTokenSource \in {"given", "made"}
          /\ gCreated' = gCreated + 1
          /\ gClient' = gCreated + 1
          /\ gPc' = [gPc EXCEPT ![c] = "use"]
       \/ /\ gTokenSource \in {"given", "made"}
          /\ gPc' = [gPc EXCEPT ![c] = "failed"]
          /\ UNCHANGED <<gClient, gCreated>>
       \/ /\ gTokenSource \notin {"given", "made"}
          /\ gPc' = [gPc EXCEPT ![c] = IF gClient = 0 THEN "failed" ELSE "use"]
          /\ UNCHANGED <<gClient, gCreated>>
    /\ gMux' = [gMux EXCEPT !.writer = 0]
    /\ UNCHANGED <<gcOthers, gTokenSource, gUsed>>

\* Translate, line 230: svc.client.TranslateText, read without the lock
GcUse(c) ==
    /\ gPc[c] = "use"
    /\ gUsed' = Append(gUsed, [caller |-> c, client |-> gClient])
    /\ gPc' = [gPc EXCEPT ![c] = "done"]
    /\ UNCHANGED <<gcOthers, gMux, gClient, gTokenSource, gCreated>>

----------------------------------------------------------------------------
(* Harness of ReplaceMany: an input, a list of replacements and a          *)
(* reordering of that list; the action calls ReplaceMany on both.          *)

ReplInputs == SeqsUpTo({"a", "U"}, MaxLen)

ReplTexts == {<<>>, <<"x">>, <<"y", "U">>}

Replacements ==
    [range : (0..(MaxLen + 1)) \X (0..(MaxLen + 1)), text : ReplTexts]

\* the permutations of 1..n
Perms(n) == {p \in [1..n -> 1..n] : \A i, j \in 1..n : i # j => p[i] # p[j]}

Permute(list, p) == [i \in 1..Len(list) |-> list[p[i]]]

ReplInit ==
    /\ rInput \in ReplInputs
    /\ rRepls \in SeqsUpTo(Replacements, MaxRepls)
    /\ rPerm = <<>>
    /\ rOut = [out |-> <<>>, err |-> "nil"]
    /\ rOutPerm = [out |-> <<>>, err |-> "nil"]
    /\ rPc = "start"

ReplIdle ==
    /\ rInput = <<>>
    /\ rRepls = <<>>
    /\ rPerm = <<>>
    /\ rOut = [out |-> <<>>, err |-> "nil"]
    /\ rOutPerm = [out |-> <<>>, err |-> "nil"]
    /\ rPc = "idle"

\* ReplaceMany is called on the list and on one reordering of the list
CallReplaceMany ==
    /\ rPc = "start"
    /\ \E p \in Perms(Len(rRepls)) :
          /\ rPerm' = Permute(rRepls, p)
          /\ rOutPerm' = ReplaceMany(rInput, Permute(rRepls, p))
    /\ rOut' = ReplaceMany(rInput, rRepls)
    /\ rPc' = "done"
    /\ UNCHANGED <<rInput, rRepls, replOthers>>

----------------------------------------------------------------------------
(* Harness of package preserve: Regexp on a text, then Join on its result. *)

PresTexts == SeqsUpTo({"a", " ", "X", "{", "}"}, MaxText)

PresInit ==
    /\ pExpr \in Exprs
    /\ pText \in PresTexts
    /\ pParts = <<>>
    /\ pItems = <<>>
    /\ pJoined = <<>>
    /\ pPc = "start"

PresIdle ==
    /\ pExpr = "word"
    /\ pText = <<>>
    /\ pParts = <<>>
    /\ pItems = <<>>
    /\ pJoined = <<>>
    /\ pPc = "idle"

CallRegexp ==
    /\ pPc = "start"
    /\ pParts' = Regexp(pExpr, pText).parts
    /\ pItems' = Regexp(pExpr, pText).items
    /\ pPc' = "split"
    /\ UNCHANGED <<pExpr, pText, pJoined, presOthers>>

CallJoin ==
    /\ pPc = "split"
    /\ pJoined' = Join(pParts, pItems)
    /\ pPc' = "joined"
    /\ UNCHANGED <<pExpr, pText, pParts, pItems, presOthers>>

----------------------------------------------------------------------------
(* Translator.Translate: options, backend, translateRange.                 *)

defaultTranslateConfig == [preserve |-> "none", parallel |-> 1]

\* the options Preserve(expr) and Parallel(n) applied to a configuration
Preserve(expr, cfg) == [cfg EXCEPT !.preserve = expr]

Parallel(n, cfg) == [cfg EXCEPT !.parallel = n]

\* for _, opt := range opts { opt(&cfg) }
RECURSIVE ApplyOpts(_, _)
ApplyOpts(cfg, opts) ==
    IF opts = <<>> THEN cfg
    ELSE ApplyOpts(IF Head(opts).opt = "Preserve"
                   THEN Preserve(Head(opts).expr, cfg)
                   ELSE Parallel(Head(opts).n, cfg),
                   Tail(opts))

\* the configuration of the call
Cfg == ApplyOpts(defaultTranslateConfig, scn.opts)

\* a number of goroutines that is the size of the argument
AbsParallel(cfg) == IF cfg.parallel < 0 THEN 0 - cfg.parallel ELSE cfg.parallel

\* a number of goroutines that is never zero
AtLeastOneWorker(cfg) == IF cfg.parallel < 1 THEN 1 ELSE cfg.parallel

\* translateRanges: workers := cfg.parallel; if workers < 0 { workers = 0 }
Workers(cfg) == IF cfg.parallel < 0 THEN 0 ELSE cfg.parallel

\* what the backend answers to a text: the identity backend returns it
\* unchanged, the other one puts a T in front of it
Translation(backend, t) == IF backend = "identity" THEN t ELSE <<"T">> \o t

\* the runes strings.TrimLeftFunc hands to the callback that return true
RECURSIVE LeadingSpace(_)
LeadingSpace(s) ==
    IF s # <<>> /\ IsSpace(Head(s))
    THEN <<Head(s)>> \o LeadingSpace(Tail(s))
    ELSE <<>>

\* the same for strings.TrimRightFunc, which walks from the end of the
\* string to its start: the runes arrive last one first
RECURSIVE TrailingSpace(_)
TrailingSpace(s) ==
    IF s # <<>> /\ IsSpace(s[Len(s)])
    THEN <<s[Len(s)]>> \o TrailingSpace(SubSeq(s, 1, Len(s) - 1))
    ELSE <<>>

\* translateRange, lines 238-252: leftSpace, the trimmed part, rightSpace
TrimPart(part) ==
    LET leftSpace  == LeadingSpace(part)
        rest       == SubSeq(part, Len(leftSpace) + 1, Len(part))
        rightSpace == TrailingSpace(rest)
    IN [leftSpace |-> leftSpace,
        part |-> SubSeq(rest, 1, Len(rest) - Len(rightSpace)),
        rightSpace |-> rightSpace]

\* an expression that matches no text
NothingIsPunctuation(s) == FALSE

\* punctRE = ^[[:punct:]]+$
isPunctuation(s) == s # <<>> /\ \A k \in 1..Len(s) : IsPunct(s[k])

\* translateRange, lines 263-272: what parts[i] becomes
Rebuilt(part, answer) ==
    LET t == TrimPart(part) IN
    IF Len(t.leftSpace) = 0 /\ Len(t.rightSpace) = 0 THEN answer
    ELSE t.leftSpace \o answer \o t.rightSpace

\* the first part from index from on that is sent to the backend
RECURSIVE NextPart(_, _)
NextPart(parts, from) ==
    IF from > Len(parts) THEN from
    ELSE IF isPunctuation(TrimPart(parts[from]).part) THEN NextPart(parts, from + 1)
    ELSE from

\* a worker that does nothing
Idle(pc) ==
    [pc |-> pc, r |-> <<0, 0>>, parts |-> <<>>, items |-> <<>>, i |-> 0,
     text |-> <<>>, err |-> "nil"]

\* translateRange from part number from on, up to its next call of the
\* backend (text is the argument of the call) or to its return (text is
\* the result, preserve.Join of the parts)
Proceed(r, parts, items, from) ==
    LET k == NextPart(parts, from) IN
    IF k > Len(parts)
    THEN [Idle("send") EXCEPT !.r = r, !.text = Join(parts, items)]
    ELSE [pc |-> "call", r |-> r, parts |-> parts, items |-> items, i |-> k,
          text |-> TrimPart(parts[k]).part, err |-> "nil"]

\* translateRange up to its first call of the backend
translateRange(cfg, r, input) ==
    LET extracted == Extract(input, r) IN
    IF extracted.err # "nil"
    THEN [Idle("sendErr") EXCEPT !.r = r, !.err = extracted.err]
    ELSE LET split == IF cfg.preserve # "none"
                      THEN Regexp(cfg.preserve, extracted.text)
                      ELSE [parts |-> <<extracted.text>>, items |-> <<>>]
         IN Proceed(r, split.parts, split.items, 1)

\* the ranges the ranger of format/json sends for a document: one for
\* every String token of the lexer, until the lexer sends EOF
RECURSIVE RangesFrom(_)
RangesFrom(l) ==
    LET res == LexString(l) IN
    IF res.tok = NoToken THEN RangesFrom(res.l)
    ELSE IF res.tok.type = "String" THEN <<TokenRange(res.tok)>> \o RangesFrom(res.l)
    ELSE <<>>

JSONRanges(input) == RangesFrom(NewLexer(input))

----------------------------------------------------------------------------
(* The ranger of format/html.  It reads the document through the tokenizer *)
(* of golang.org/x/net/html; a document is given here as the sequence of   *)
(* the tokens the tokenizer returns for it, each with the raw bytes it was *)
(* read from.  A start tag can be written with its attribute values in     *)
(* double quotes, in single quotes or without quotes, and with more than   *)
(* one blank before an attribute; the token is the same for all of them.   *)
(* A token carries the style its raw bytes were written in; the ranger     *)
(* reads the type, the data, the attributes and the length of the raw      *)
(* bytes only.                                                             *)

\* the token of a text node without character references
TextToken(t) ==
    [type |-> "Text", raw |-> t, data |-> t, attr |-> <<>>, style |-> "none"]

\* the token of the text &amp;
EntityToken ==
    [type |-> "Text", raw |-> <<"&", "a", "m", "p", ";">>, data |-> <<"&">>,
     attr |-> <<>>, style |-> "none"]

\* the token of the comment <!--a-->
CommentToken ==
    [type |-> "Comment", raw |-> <<"<", "!", "-", "-", "a", "-", "-", ">">>,
     data |-> <<"a">>, attr |-> <<>>, style |-> "none"]

\* the token of the doctype <!DOCTYPE a>
DoctypeToken ==
    [type |-> "Doctype",
     raw  |-> <<"<", "!", "D", "O", "C", "T", "Y", "P", "E", " ", "a", ">">>,
     data |-> <<"a">>, attr |-> <<>>, style |-> "none"]

RawStyles == {"double", "single", "bare", "spaced"}

\* one attribute as it is written in the raw tag
RawAttr(a, style) ==
    CASE style = "double" -> <<" ">> \o a.key \o <<"=", "\"">> \o a.val \o <<"\"">>
      [] style = "single" -> <<" ">> \o a.key \o <<"=", "'">> \o a.val \o <<"'">>
      [] style = "bare"   -> <<" ">> \o a.key \o <<"=">> \o a.val
      [] style = "spaced" -> <<" ", " ">> \o a.key \o <<"=", "\"">> \o a.val \o <<"\"">>

RECURSIVE RawAttrs(_, _)
RawAttrs(attrs, style) ==
    IF attrs = <<>> THEN <<>>
    ELSE RawAttr(Head(attrs), style) \o RawAttrs(Tail(attrs), style)

StartTagToken(name, attrs, style) ==
    [type |-> "StartTag",
     raw  |-> <<"<">> \o name \o RawAttrs(attrs, style) \o <<">">>,
     data |-> name, attr |-> attrs, style |-> style]

SelfClosingTagToken(name, attrs, style) ==
    [type |-> "SelfClosingTag",
     raw  |-> <<"<">> \o name \o RawAttrs(attrs, style) \o <<" ", "/", ">">>,
     data |-> name, attr |-> attrs, style |-> style]

EndTagToken(name) ==
    [type |-> "EndTag", raw |-> <<"<", "/">> \o name \o <<">">>,
     data |-> name, attr |-> <<>>, style |-> "none"]

\* html.EscapeString
RECURSIVE EscapeString(_)
EscapeString(s) ==
    IF s = <<>> THEN <<>>
    ELSE (CASE Head(s) = "&"  -> <<"&", "a", "m", "p", ";">>
            [] Head(s) = "'"  -> <<"&", "#", "3", "9", ";">>
            [] Head(s) = "<"  -> <<"&", "l", "t", ";">>
            [] Head(s) = ">"  -> <<"&", "g", "t", ";">>
            [] Head(s) = "\"" -> <<"&", "#", "3", "4", ";">>
            [] OTHER          -> <<Head(s)>>)
         \o EscapeString(Tail(s))

\* Token.tagString: the name, then every attribute as key="escaped value"
RECURSIVE AttrsString(_)
AttrsString(attrs) ==
    IF attrs = <<>> THEN <<>>
    ELSE <<" ">> \o Head(attrs).key \o <<"=", "\"">>
            \o EscapeString(Head(attrs).val) \o <<"\"">>
            \o AttrsString(Tail(attrs))

\* Token.String
TokenString(tok) ==
    CASE tok.type = "StartTag" ->
            <<"<">> \o tok.data \o AttrsString(tok.attr) \o <<">">>
      [] tok.type = "SelfClosingTag" ->
            <<"<">> \o tok.data \o AttrsString(tok.attr) \o <<"/", ">">>
      [] tok.type = "EndTag" ->
            <<"<", "/">> \o tok.data \o AttrsString(tok.attr) \o <<">">>
      [] OTHER -> EscapeString(tok.data)

\* the class [[:word:]] on a byte
IsWordByte(b) == b[1] \in {"a", "b", "k", "p", "t", "x", "m", "l", "g", "3", "4", "9"}

\* the offset at which the run of word bytes that starts at offset i ends
RECURSIVE WordEnd(_, _)
WordEnd(s, i) == IF i < Len(s) /\ IsWordByte(s[i + 1]) THEN WordEnd(s, i + 1) ELSE i

NoAttrMatch == [start |-> -1, name |-> -1, val |-> -1, valEnd |-> -1, end |-> -1]

\* the match of attrRE = (?P<NAME>[[:word:]]+?)="(?P<VALUE>.+?)" that
\* starts at offset i of s: the name runs to the equals sign, the value is
\* the shortest run of at least one byte other than a line feed that a
\* double quote follows
AttrMatchAt(s, i) ==
    LET e == WordEnd(s, i) IN
    IF ~(e > i /\ e + 2 <= Len(s) /\ s[e + 1][1] = "=" /\ s[e + 2][1] = "\"")
    THEN NoAttrMatch
    ELSE LET vs     == e + 2
             closes == {q \in (vs + 1)..(Len(s) - 1) :
                          /\ s[q + 1][1] = "\""
                          /\ \A m \in vs..(q - 1) : s[m + 1][1] # "\n"}
         IN
         IF closes = {} THEN NoAttrMatch
         ELSE LET q == CHOOSE q \in closes : \A p \in closes : q <= p IN
              [start |-> i, name |-> e, val |-> vs, valEnd |-> q, end |-> q + 1]

\* attrRE.FindAllStringIndex(fullTag, -1) with the submatches
RECURSIVE FindAllAttrs(_, _)
FindAllAttrs(s, i) ==
    IF i >= Len(s) THEN <<>>
    ELSE LET m == AttrMatchAt(s, i) IN
         IF m = NoAttrMatch THEN FindAllAttrs(s, i + 1)
         ELSE <<m>> \o FindAllAttrs(s, m.end)

\* strings.Index
Index(s, sub) ==
    LET at == {k \in 0..(Len(s) - Len(sub)) : Slice(s, k, k + Len(sub)) = sub} IN
    IF at = {} THEN -1 ELSE CHOOSE k \in at : \A j \in at : k <= j

\* the loop of rangeAttributes over the matches
RECURSIVE AttrRangesLoop(_, _, _)
AttrRangesLoop(fullTag, matches, attrs) ==
    IF matches = <<>> THEN <<>>
    ELSE LET match  == Head(matches)
             attr   == Slice(fullTag, match.start, match.end)
             name   == Slice(fullTag, match.start, match.name)
             val    == Slice(fullTag, match.val, match.valEnd)
             offset == Index(attr, val)
             start  == match.start + offset
         IN (IF \E allowedName \in attrs : name = Bytes(allowedName)
             THEN <<<<start, start + Len(val)>>>>
             ELSE <<>>)
            \o AttrRangesLoop(fullTag, Tail(matches), attrs)

\* ranger.rangeAttributes
rangeAttributes(tok, attrs) ==
    LET fullTag == Bytes(TokenString(tok)) IN
    AttrRangesLoop(fullTag, FindAllAttrs(fullTag, 0), attrs)

\* WithAttribute(name, tags...): the function it adds to attributeFuncs
\* returns name for every tag if tags is empty, else for the tags named
WithAttribute(name, tags) == [name |-> name, tags |-> tags]

\* a selector that returns its name for every tag, whatever its tags
EveryTag(tok, f) == {f.name}

\* what the function of one WithAttribute option returns for a token
AttributeFunc(tok, f) ==
    IF f.tags = {} \/ tok.data \in f.tags THEN {f.name} ELSE {}

\* ranger.filterAttributes: the names the functions of the options return
filterAttributes(tok, allowed) ==
    IF tok.attr = <<>> \/ allowed = {} THEN {}
    ELSE UNION {AttributeFunc(tok, f) : f \in allowed}

\* every text counts as content
AnyText(data) == TRUE

\* strings.TrimSpace(tok.Data) != ""
HasText(data) == \E k \in 1..Len(data) : ~IsSpace(data[k])

\* the ranges the loop of Ranges sends for one token read at offset pos
TokenRanges(tok, pos, allowed) ==
    LET l == ByteLen(tok.raw) IN
    IF tok.type = "Text"
    THEN IF HasText(tok.data) THEN <<<<pos, pos + l>>>> ELSE <<>>
    ELSE IF tok.type \in {"StartTag", "SelfClosingTag"}
    THEN LET attrs == filterAttributes(tok, allowed) IN
         IF attrs = {} THEN <<>>
         ELSE LET attrRanges == rangeAttributes(tok, attrs) IN
              [k \in 1..Len(attrRanges) |->
                    <<attrRanges[k][1] + pos, attrRanges[k][2] + pos>>]
    ELSE <<>>

\* the input of the ranger: the raw bytes of the tokens one after the other
RECURSIVE HTMLInput(_)
HTMLInput(tokens) ==
    IF tokens = <<>> THEN <<>> ELSE Head(tokens).raw \o HTMLInput(Tail(tokens))

\* the documents studied: a tag with up to two attributes, written in each
\* style, alone, around a text, or after a text
HTMLAttr(k, v) == [key |-> <<k>>, val |-> <<v>>]

AttrLists ==
    {<<>>}
        \cup {<<HTMLAttr(k, v)>> : k \in {"k", "t"}, v \in {"x", "t", "&", "U"}}
        \cup {<<HTMLAttr("k", v1), HTMLAttr("t", v2)>> :
                v1 \in {"x", "&"}, v2 \in {"x", "t"}}
        \cup {<<[key |-> <<"m", "-", "k">>, val |-> <<"x">>]>>}

HTMLTags ==
    {StartTagToken(<<"p">>, as, st) : as \in AttrLists, st \in RawStyles}
        \cup {SelfClosingTagToken(<<"p">>, as, "double") : as \in AttrLists}
        \cup {StartTagToken(<<"b">>, <<HTMLAttr("k", v)>>, "double") : v \in {"x", "U"}}

HTMLTexts == {TextToken(t) : t \in {<<"a">>, <<" ">>, <<"U", "a">>}}

\* tokens for which the ranger sends nothing
HTMLOthers == {CommentToken, DoctypeToken, EndTagToken(<<"p">>)}

HTMLDocs ==
    {<<>>}
        \cup {<<x>> : x \in HTMLTexts}
        \cup {<<g>> : g \in HTMLTags}
        \cup {<<g, x, EndTagToken(<<"p">>)>> : g \in HTMLTags, x \in HTMLTexts}
        \cup {<<x, g>> : x \in HTMLTexts, g \in HTMLTags}
        \cup {<<x, o, y>> :
                x \in HTMLTexts \cup {EntityToken}, o \in HTMLOthers, y \in HTMLTexts}

\* the options of the ranger: none, WithAttribute for every tag, and
\* WithAttribute for the tags named
AllowedSets ==
    {{},
     {WithAttribute(<<"k">>, {})},
     {WithAttribute(<<"t">>, {})},
     {WithAttribute(<<"k">>, {}), WithAttribute(<<"t">>, {})},
     {WithAttribute(<<"k">>, {<<"p">>})},
     {WithAttribute(<<"k">>, {<<"b">>})},
     {WithAttribute(<<"k">>, {<<"b">>}), WithAttribute(<<"t">>, {<<"p">>})}}

HtmlInit ==
    /\ hDoc \in HTMLDocs
    /\ hAllowed \in AllowedSets
    /\ hIdx = 1
    /\ hPos = 0
    /\ hPending = <<>>
    /\ hPc = "loop"
    /\ hGot = <<>>
    /\ hCtxDone = FALSE
    /\ hErr = "none"
    /\ hClosed = FALSE
    /\ hRecv = TRUE

HtmlIdle ==
    /\ hDoc = <<>>
    /\ hAllowed = {}
    /\ hIdx = 1
    /\ hPos = 0
    /\ hPending = <<>>
    /\ hPc = "idle"
    /\ hGot = <<>>
    /\ hCtxDone = FALSE
    /\ hErr = "none"
    /\ hClosed = FALSE
    /\ hRecv = TRUE

\* the caller cancels the context
HTMLCancel ==
    /\ hPc \in {"loop", "send"}
    /\ ~hCtxDone
    /\ hCtxDone' = TRUE
    /\ UNCHANGED <<htmlOthers, hDoc, hAllowed, hIdx, hPos, hPending, hPc, hGot, hErr,
                   hClosed, hRecv>>

\* after the cancellation the caller of Ranges stops receiving from the
\* two channels, as Translate does when it returns
HTMLStopReceiving ==
    /\ hPc \in {"loop", "send"}
    /\ hCtxDone
    /\ hRecv
    /\ hRecv' = FALSE
    /\ UNCHANGED <<htmlOthers, hDoc, hAllowed, hIdx, hPos, hPending, hPc, hGot, hErr,
                   hClosed, hCtxDone>>

\* the select at the top of the loop, case <-ctx.Done(): the error is sent
\* on the unbuffered errs to a receiver and the goroutine returns
HTMLCtxDone ==
    /\ hPc = "loop"
    /\ hCtxDone
    /\ hRecv
    /\ hErr' = "context canceled"
    /\ hPc' = "return"
    /\ UNCHANGED <<htmlOthers, hDoc, hAllowed, hIdx, hPos, hPending, hGot, hCtxDone,
                   hClosed, hRecv>>

\* one turn of the loop, default case of the select: the next token is
\* read; at the end of the input the goroutine returns; a token without
\* ranges only moves pos
HTMLNextToken ==
    /\ hPc = "loop"
    /\ ~hCtxDone
    /\ IF hIdx > Len(hDoc)
       THEN /\ hPc' = "return"
            /\ UNCHANGED <<hIdx, hPos, hPending>>
       ELSE LET rs == TokenRanges(hDoc[hIdx], hPos, hAllowed) IN
            IF rs = <<>>
            THEN /\ hPos' = hPos + ByteLen(hDoc[hIdx].raw)
                 /\ hIdx' = hIdx + 1
                 /\ UNCHANGED <<hPc, hPending>>
            ELSE /\ hPending' = rs
                 /\ hPc' = "send"
                 /\ UNCHANGED <<hIdx, hPos>>
    /\ UNCHANGED <<htmlOthers, hDoc, hAllowed, hGot, hCtxDone, hErr, hClosed, hRecv>>

\* a send on the unbuffered range channel meets its receiver; after the
\* last range of the token pos moves on
HTMLSendRange ==
    /\ hPc = "send"
    /\ hRecv
    /\ hGot' = Append(hGot, Head(hPending))
    /\ hPending' = Tail(hPending)
    /\ IF Tail(hPending) = <<>>
       THEN /\ hPos' = hPos + ByteLen(hDoc[hIdx].raw)
            /\ hIdx' = hIdx + 1
            /\ hPc' = "loop"
       ELSE UNCHANGED <<hIdx, hPos, hPc>>
    /\ UNCHANGED <<htmlOthers, hDoc, hAllowed, hCtxDone, hErr, hClosed, hRecv>>

\* the goroutine returns: close(errs), close(ranges)
HTMLReturn ==
    /\ hPc = "return"
    /\ hClosed' = TRUE
    /\ hPc' = "done"
    /\ UNCHANGED <<htmlOthers, hDoc, hAllowed, hIdx, hPos, hPending, hGot, hCtxDone,
                   hErr, hRecv>>

----------------------------------------------------------------------------
(* A call of text.Extract.                                                 *)

ExtractInputs == SeqsUpTo({"a", "b", "U"}, MaxExtractLen)

ExtractRanges == {<<lo, hi>> : lo \in 0..MaxOffset, hi \in 0..MaxOffset}

ExtInit ==
    /\ eInput \in ExtractInputs
    /\ eRange \in ExtractRanges
    /\ eOut = [text |-> <<>>, err |-> "none"]
    /\ ePc = "call"
    /\ eRepl = <<>>

ExtIdle ==
    /\ eInput = <<>>
    /\ eRange = <<0, 0>>
    /\ eOut = [text |-> <<>>, err |-> "none"]
    /\ ePc = "idle"
    /\ eRepl = <<>>

CallExtract ==
    /\ ePc = "call"
    /\ eOut' = Extract(eInput, eRange)
    /\ ePc' = "done"
    /\ UNCHANGED <<extOthers, eInput, eRange, eRepl>>

----------------------------------------------------------------------------
(* A call of text.Replace.  The result is given in bytes: Replace slices   *)
(* the string text, not its runes.                                         *)

\* text.Replace: the only check is r.Len() > len(text); a slice expression
\* with a bound beyond len(text), or with text[:r[0]] after that check
\* passed for a range of negative length, panics or yields what it yields
Replace(text, repl, r) ==
    LET b    == Bytes(text)
        tlen == Len(b)
    IN
    IF RangeLen(r) > tlen THEN [text |-> b, err |-> "range out of bounds"]
    ELSE IF r[1] > tlen \/ r[2] > tlen THEN [text |-> <<>>, err |-> "panic"]
    ELSE [text |-> Slice(b, 0, r[1]) \o Bytes(repl) \o Slice(b, r[2], tlen),
          err |-> "nil"]

ReplaceInit ==
    /\ eInput \in ExtractInputs
    /\ eRange \in ExtractRanges
    /\ eOut = [text |-> <<>>, err |-> "none"]
    /\ ePc = "replace"
    /\ eRepl \in ReplTexts

CallReplace ==
    /\ ePc = "replace"
    /\ eOut' = Replace(eInput, eRepl, eRange)
    /\ ePc' = "replaced"
    /\ UNCHANGED <<extOthers, eInput, eRange, eRepl>>

----------------------------------------------------------------------------
(* JSONDiff on two decoded maps.  A JSON value is an object, a record with *)
(* its members m (a function on its keys), or a value that is no object.   *)
(* The range statement visits the keys of a map in an order that Go does   *)
(* not fix; order lists all keys in the order of one run.                  *)

DiffKeys == {"a", "b"}

String == [kind |-> "string"]

Null == [kind |-> "null"]

Object(m) == [kind |-> "object", m |-> m]

\* the functions from a subset of the keys to the values vs
Maps(vs) == UNION {[ks -> vs] : ks \in SUBSET DiffKeys}

\* the JSON values with objects nested at most d deep over the given
\* values that are no objects
RECURSIVE JSONValues(_, _)
JSONValues(d, leaves) ==
    IF d = 0 THEN leaves
    ELSE leaves \cup {Object(m) : m \in Maps(JSONValues(d - 1, leaves))}

KeyOrders == {<<"a", "b">>, <<"b", "a">>}

\* the keys of m in the order in which range visits them
KeysInOrder(m, order) == SelectSeq(order, LAMBDA k : k \in DOMAIN m)

\* mapSlice(paths, func(p) { return append(JSONPath{k}, p...) })
Prefixed(k, paths) == [i \in 1..Len(paths) |-> <<k>> \o paths[i]]

\* the keys of a map, each as a path of one element
TopKeys(m, order) == [i \in 1..Len(KeysInOrder(m, order)) |-> <<KeysInOrder(m, order)[i]>>]

\* allKeys: the paths of all values below m that are no objects
RECURSIVE allKeysFrom(_, _, _)
allKeysFrom(m, ks, order) ==
    IF ks = <<>> THEN <<>>
    ELSE LET k == Head(ks)
             v == m[k]
         IN (IF v.kind = "object"
             THEN Prefixed(k, allKeysFrom(v.m, KeysInOrder(v.m, order), order))
             ELSE <<<<k>>>>)
            \o allKeysFrom(m, Tail(ks), order)

allKeys(m, order) == allKeysFrom(m, KeysInOrder(m, order), order)

\* jsonDiffPaths: the loop over the keys ks still to visit, with the paths
\* collected so far
RECURSIVE jsonDiffFrom(_, _, _, _, _)
jsonDiffFrom(source, target, ks, paths, order) ==
    IF ks = <<>> THEN [paths |-> paths, err |-> "nil"]
    ELSE
      LET k == Head(ks)
          v == source[k]
      IN
      IF v.kind = "object"
      THEN IF k \in DOMAIN target
           THEN IF target[k].kind # "object"
                THEN [paths |-> paths, err |-> "target value is not a map"]
                ELSE LET sub == jsonDiffFrom(v.m, target[k].m,
                                             KeysInOrder(v.m, order), <<>>, order)
                     IN
                     IF sub.err # "nil" THEN [paths |-> paths, err |-> sub.err]
                     ELSE jsonDiffFrom(source, target, Tail(ks),
                                       paths \o Prefixed(k, sub.paths), order)
           ELSE jsonDiffFrom(source, target, Tail(ks),
                             paths \o Prefixed(k, allKeys(v.m, order)), order)
      ELSE IF k \notin DOMAIN target
           THEN jsonDiffFrom(source, target, Tail(ks), Append(paths, <<k>>), order)
           ELSE jsonDiffFrom(source, target, Tail(ks), paths, order)

jsonDiffPaths(source, target, order) ==
    jsonDiffFrom(source, target, KeysInOrder(source, order), <<>>, order)

\* JSONDiff called with two maps
JSONDiff(source, target, order) == jsonDiffPaths(source, target, order)

DiffInit ==
    /\ jSource \in Maps(JSONValues(MaxDepth, {String}))
    /\ jTarget \in Maps(JSONValues(MaxDepth - 1, {Null}))
    /\ jOrder \in KeyOrders
    /\ jOut = [paths |-> <<>>, err |-> "none"]
    /\ jPc = "call"

DiffIdle ==
    /\ jSource = <<>>
    /\ jTarget = <<>>
    /\ jOrder = <<>>
    /\ jOut = [paths |-> <<>>, err |-> "none"]
    /\ jPc = "idle"

CallJSONDiff ==
    /\ jPc = "call"
    /\ jOut' = JSONDiff(jSource, jTarget, jOrder)
    /\ jPc' = "done"
    /\ UNCHANGED <<diffOthers, jSource, jTarget, jOrder>>

----------------------------------------------------------------------------
(* Translator.Translate and the goroutines it starts.  The ranger is       *)
(* either the one of format/json, whose channels are unbuffered and which  *)
(* closes both, or a ranger that sends a given list of ranges on a channel *)
(* as large as the list and never closes its error channel (WithRanges of  *)
(* dragoman_test.go).  A call carries the list of ranges its ranger sends. *)
(* The reader of a ranger is in memory and valid, so neither of the two    *)
(* sends an error; the ranger named "failing" is the goroutine of          *)
(* format/json on a token stream that ends in an Error token: it sends its *)
(* ranges, then the error, and returns.                                    *)

\* the ranges the ranger sends, in order
Emit == scn.emit

\* the capacity of the ranger's range channel
RangeCap == IF scn.ranger = "text" THEN Len(scn.emit) ELSE 0

OpenChan == [buf |-> <<>>, closed |-> FALSE]

NoReturn == [out |-> <<>>, err |-> "none"]

\* the ranges whose translation is complete
TranslatedCount ==
    Len(translations) + Len(translated.buf)
        + Cardinality({w \in DOMAIN wk : wk[w].pc = "send"})

\* no range is ever there for a worker to receive
NoRangeReady == FALSE

\* a range is there for a worker to receive: the head of the buffer, or
\* the one the ranger is sending on its unbuffered channel
RangeReady ==
    \/ ranges.buf # <<>>
    \/ RangeCap = 0 /\ rgPc = "run" /\ rgNext <= Len(Emit)

\* Translate, line 67: ranger.Ranges starts the ranger goroutine
CallRanges ==
    /\ mainPc = "start"
    /\ mainPc' = "ranged"
    /\ rgPc' = "run"
    /\ UNCHANGED <<trOthers, rgNext, ranges, rangeErrs, rangeErrsNil,
                   translateRangeErrsNil, translations, ret, poolVars, ctxVars,
                   backendVars>>

\* the ranger puts a range in the buffer of its channel
RangerSend ==
    /\ rgPc = "run"
    /\ rgNext <= Len(Emit)
    /\ Len(ranges.buf) < RangeCap
    /\ ranges' = [ranges EXCEPT !.buf = Append(ranges.buf, Emit[rgNext])]
    /\ rgNext' = rgNext + 1
    /\ UNCHANGED <<trOthers, rgPc, rangeErrs, mainVars, poolVars, ctxVars, backendVars>>

\* format/json: the deferred close(errs) of the ranger goroutine, after
\* the EOF token or after the error is sent
RangerCloseErrs ==
    /\ \/ rgPc = "run" /\ rgNext > Len(Emit) /\ scn.ranger = "json"
       \/ rgPc = "closeErrs"
    /\ rangeErrs' = "closed"
    /\ rgPc' = "closeRanges"
    /\ UNCHANGED <<trOthers, rgNext, ranges, mainVars, poolVars, ctxVars, backendVars>>

\* the deferred close of the range channel
RangerCloseRanges ==
    /\ \/ rgPc = "closeRanges"
       \/ rgPc = "run" /\ rgNext > Len(Emit) /\ scn.ranger = "text"
    /\ ranges' = [ranges EXCEPT !.closed = TRUE]
    /\ rgPc' = "done"
    /\ UNCHANGED <<trOthers, rgNext, rangeErrs, mainVars, poolVars, ctxVars, backendVars>>

\* Translate, line 68: translateRanges makes its channels as large as the
\* range channel is full, starts the closing goroutine and the workers
TranslateRanges ==
    /\ mainPc = "ranged"
    /\ mainPc' = "loop"
    /\ chanCap' = Len(ranges.buf)
    /\ wk' = [w \in DOMAIN wk |-> IF w <= Workers(Cfg) THEN Idle("select") ELSE wk[w]]
    /\ closerPc' = "wait"
    /\ UNCHANGED <<trOthers, rgVars, rangeErrsNil, translateRangeErrsNil, translations,
                   ret, translated, errs, ctxVars, backendVars>>

\* a worker's select, case <-ctx.Done()
WorkerCtxDone(w) ==
    /\ wk[w].pc = "select"
    /\ ctxDone
    /\ wk' = [wk EXCEPT ![w] = Idle("done")]
    /\ UNCHANGED <<trOthers, rgVars, mainVars, chanCap, translated, errs, closerPc,
                   ctxVars, backendVars>>

\* a worker's select, case r, ok := <-ranges with ok false
WorkerRangesClosed(w) ==
    /\ wk[w].pc = "select"
    /\ ranges.closed
    /\ ranges.buf = <<>>
    /\ wk' = [wk EXCEPT ![w] = Idle("done")]
    /\ UNCHANGED <<trOthers, rgVars, mainVars, chanCap, translated, errs, closerPc,
                   ctxVars, backendVars>>

\* a worker's select, case r, ok := <-ranges with a range: translateRange
\* runs up to its first call of the backend
WorkerReceive(w) ==
    /\ wk[w].pc = "select"
    /\ RangeReady
    /\ LET r    == IF ranges.buf # <<>> THEN Head(ranges.buf) ELSE Emit[rgNext]
           next == translateRange(Cfg, r, scn.input)
       IN
        /\ wk' = [wk EXCEPT ![w] = next]
        /\ sent' = IF next.pc = "call" THEN sent \cup {next.text} ELSE sent
    /\ IF ranges.buf # <<>>
       THEN ranges' = [ranges EXCEPT !.buf = Tail(ranges.buf)] /\ UNCHANGED rgNext
       ELSE rgNext' = rgNext + 1 /\ UNCHANGED ranges
    /\ UNCHANGED <<trOthers, rgPc, rangeErrs, mainVars, chanCap, translated, errs,
                   closerPc, ctxVars, failed>>

\* the backend answers a call: translateRange goes on to its next call or
\* returns
BackendReturn(w) ==
    /\ wk[w].pc = "call"
    /\ LET me    == wk[w]
           parts == [me.parts EXCEPT ![me.i] =
                        Rebuilt(me.parts[me.i], Translation(scn.backend, me.text))]
           next  == Proceed(me.r, parts, me.items, me.i + 1)
       IN
        /\ wk' = [wk EXCEPT ![w] = next]
        /\ sent' = IF next.pc = "call" THEN sent \cup {next.text} ELSE sent
    /\ UNCHANGED <<trOthers, rgVars, mainVars, chanCap, translated, errs, closerPc,
                   ctxVars, failed>>

\* the backend fails a call: translateRange returns the error
BackendFail(w) ==
    /\ wk[w].pc = "call"
    /\ scn.mayFail
    /\ wk' = [wk EXCEPT ![w] = [Idle("sendErr") EXCEPT !.r = wk[w].r, !.err = "backend"]]
    /\ failed' = TRUE
    /\ UNCHANGED <<trOthers, rgVars, mainVars, chanCap, translated, errs, closerPc,
                   ctxVars, sent>>

\* translated <- translatedRange{...} into the buffer of the channel
WorkerSend(w) ==
    /\ wk[w].pc = "send"
    /\ Len(translated.buf) < chanCap
    /\ translated' = [translated EXCEPT
                        !.buf = Append(translated.buf, [r |-> wk[w].r, text |-> wk[w].text])]
    /\ wk' = [wk EXCEPT ![w] = Idle("select")]
    /\ UNCHANGED <<trOthers, rgVars, mainVars, chanCap, errs, closerPc, ctxVars,
                   backendVars>>

\* errs <- &translateRangeError{...} into the buffer of the channel; the
\* break leaves the select, the loop goes on
WorkerSendErr(w) ==
    /\ wk[w].pc = "sendErr"
    /\ Len(errs.buf) < chanCap
    /\ errs' = [errs EXCEPT !.buf = Append(errs.buf, wk[w].err)]
    /\ wk' = [wk EXCEPT ![w] = Idle("select")]
    /\ UNCHANGED <<trOthers, rgVars, mainVars, chanCap, translated, closerPc, ctxVars,
                   backendVars>>

\* a closing goroutine that does not wait for the workers
CloseErrsAtOnce ==
    /\ closerPc = "wait"
    /\ errs' = [errs EXCEPT !.closed = TRUE]
    /\ closerPc' = "closeTranslated"
    /\ UNCHANGED <<trOthers, rgVars, mainVars, chanCap, translated, wk, ctxVars,
                   backendVars>>

\* the closing goroutine: wg.Wait() returns, the deferred close(errs) runs
CloseErrs ==
    /\ closerPc = "wait"
    /\ \A w \in DOMAIN wk : wk[w].pc \in {"none", "done"}
    /\ errs' = [errs EXCEPT !.closed = TRUE]
    /\ closerPc' = "closeTranslated"
    /\ UNCHANGED <<trOthers, rgVars, mainVars, chanCap, translated, wk, ctxVars,
                   backendVars>>

\* the closing goroutine: the deferred close(translated)
CloseTranslated ==
    /\ closerPc = "closeTranslated"
    /\ translated' = [translated EXCEPT !.closed = TRUE]
    /\ closerPc' = "done"
    /\ UNCHANGED <<trOthers, rgVars, mainVars, chanCap, errs, wk, ctxVars, backendVars>>

\* every return of Translate runs the deferred cancel()
Return(out, err) ==
    /\ ret' = [out |-> out, err |-> err]
    /\ mainPc' = "returned"
    /\ ctxDone' = TRUE

\* Translate's select, case <-ctx.Done(): return nil, ctx.Err()
SelectCtxDone ==
    /\ mainPc = "loop"
    /\ ctxDone
    /\ Return(<<>>, "context canceled")
    /\ UNCHANGED <<trOthers, rgVars, rangeErrsNil, translateRangeErrsNil, translations,
                   poolVars, cancelled, backendVars>>

\* the ranger stands at errs <- fmt.Errorf("lex: %s", tok.Value)
RangerAtError == scn.ranger = "failing" /\ rgPc = "run" /\ rgNext > Len(Emit)

\* Translate's select, case err, ok := <-rangeErrs with the error the
\* ranger is sending: return nil, fmt.Errorf("get ranges: %w", err); the
\* ranger goes on to its return
SelectRangeErr ==
    /\ mainPc = "loop"
    /\ ~rangeErrsNil
    /\ RangerAtError
    /\ rgPc' = "closeErrs"
    /\ Return(<<>>, "get ranges")
    /\ UNCHANGED <<trOthers, rgNext, ranges, rangeErrs, rangeErrsNil,
                   translateRangeErrsNil, translations, poolVars, cancelled,
                   backendVars>>

\* Translate's select, case err, ok := <-rangeErrs with ok false
SelectRangeErrsClosed ==
    /\ mainPc = "loop"
    /\ ~rangeErrsNil
    /\ rangeErrs = "closed"
    /\ rangeErrsNil' = TRUE
    /\ UNCHANGED <<trOthers, rgVars, mainPc, translateRangeErrsNil, translations, ret,
                   poolVars, ctxVars, backendVars>>

\* Translate's select, case err, ok := <-translateRangeErrs with an error
\* from the buffer: return nil, err
SelectTranslateRangeErr ==
    /\ mainPc = "loop"
    /\ ~translateRangeErrsNil
    /\ errs.buf # <<>>
    /\ errs' = [errs EXCEPT !.buf = Tail(errs.buf)]
    /\ Return(<<>>, Head(errs.buf))
    /\ UNCHANGED <<trOthers, rgVars, rangeErrsNil, translateRangeErrsNil, translations,
                   chanCap, translated, wk, closerPc, cancelled, backendVars>>

\* the same case, the error handed over by a worker that is sending it
SelectTranslateRangeErrFrom(w) ==
    /\ mainPc = "loop"
    /\ ~translateRangeErrsNil
    /\ errs.buf = <<>>
    /\ wk[w].pc = "sendErr"
    /\ wk' = [wk EXCEPT ![w] = Idle("select")]
    /\ Return(<<>>, wk[w].err)
    /\ UNCHANGED <<trOthers, rgVars, rangeErrsNil, translateRangeErrsNil, translations,
                   chanCap, translated, errs, closerPc, cancelled, backendVars>>

\* the same case with ok false
SelectTranslateRangeErrsClosed ==
    /\ mainPc = "loop"
    /\ ~translateRangeErrsNil
    /\ errs.buf = <<>>
    /\ errs.closed
    /\ translateRangeErrsNil' = TRUE
    /\ UNCHANGED <<trOthers, rgVars, mainPc, rangeErrsNil, translations, ret, poolVars,
                   ctxVars, backendVars>>

\* Translate's select, case tr, open := <-translatedRanges with a
\* translation from the buffer
SelectTranslatedRange ==
    /\ mainPc = "loop"
    /\ translated.buf # <<>>
    /\ translations' = Append(translations, Head(translated.buf))
    /\ translated' = [translated EXCEPT !.buf = Tail(translated.buf)]
    /\ UNCHANGED <<trOthers, rgVars, mainPc, rangeErrsNil, translateRangeErrsNil, ret,
                   chanCap, errs, wk, closerPc, ctxVars, backendVars>>

\* the same case, the translation handed over by a worker that is sending it
SelectTranslatedRangeFrom(w) ==
    /\ mainPc = "loop"
    /\ translated.buf = <<>>
    /\ wk[w].pc = "send"
    /\ translations' = Append(translations, [r |-> wk[w].r, text |-> wk[w].text])
    /\ wk' = [wk EXCEPT ![w] = Idle("select")]
    /\ UNCHANGED <<trOthers, rgVars, mainPc, rangeErrsNil, translateRangeErrsNil, ret,
                   chanCap, translated, errs, closerPc, ctxVars, backendVars>>

\* Translate, lines 97-103
ToReplacements(list) ==
    [k \in 1..Len(list) |-> [range |-> list[k].r, text |-> list[k].text]]

\* the same case with open false: break L, then lines 97-110
SelectTranslatedRangesClosed ==
    /\ mainPc = "loop"
    /\ translated.buf = <<>>
    /\ translated.closed
    /\ LET result == ReplaceMany(scn.input, ToReplacements(translations)) IN
          Return(result.out, result.err)
    /\ UNCHANGED <<trOthers, rgVars, rangeErrsNil, translateRangeErrsNil, translations,
                   poolVars, cancelled, backendVars>>

\* the caller cancels the context it gave to Translate
CancelContext ==
    /\ scn.mayCancel
    /\ ~ctxDone
    /\ mainPc # "returned"
    /\ ctxDone' = TRUE
    /\ cancelled' = IF TranslatedCount < Len(Emit) THEN "early" ELSE "late"
    /\ UNCHANGED <<trOthers, rgVars, mainVars, poolVars, backendVars>>

----------------------------------------------------------------------------
(* The calls of Translate that are studied.                                *)

Arr(es) == Runes(Ch(<<"[">>, "x") \o es \o Ch(<<"]">>, "x"))

Comma == Ch(<<",">>, "x")

\* JSON documents with one, two and three string values
OneValueDocs ==
    {Runes(Obj1(KeyLit(<<"k">>, <<>>) \o ValStr(b))) :
        b \in {<<"a">>, <<>>, <<".">>, <<"a", " ", "\n">>, <<" ", "a">>, Umls(MaxUml)}}

TwoValueDocs ==
    {Arr(ValStr(<<"a">>) \o Comma \o ValStr(<<"b">>)),
     Arr(ValStr(<<"U">>) \o Comma \o ValStr(<<"a">>))}

ThreeValueDocs ==
    {Arr(ValStr(<<"a">>) \o Comma \o ValStr(<<"b">>) \o Comma \o ValStr(<<"a">>))}

ParallelOpts == {<<>>} \cup {<<[opt |-> "Parallel", n |-> n]>> : n \in (0 - 1)..MaxParallel}

Call(input, ranger, emit, opts, backend, mayFail, mayCancel) ==
    [input |-> input, ranger |-> ranger, emit |-> emit, opts |-> opts,
     backend |-> backend, mayFail |-> mayFail, mayCancel |-> mayCancel]

\* JSON documents through the JSON ranger, every Parallel setting, a
\* backend that does not fail, a caller that does not cancel
JSONCalls ==
    {Call(d, "json", JSONRanges(d), o, b, FALSE, FALSE) :
        d \in OneValueDocs \cup TwoValueDocs \cup ThreeValueDocs,
        o \in ParallelOpts, b \in {"identity", "tr"}}

\* one range that is the whole text, with and without a Preserve expression
RangeTexts == SeqsUpTo({"a", "X", " ", "\n", "."}, MaxRangeText)

BraceTexts ==
    {<<"{", "a", "}">>, <<"a", "{", "a", "}">>, <<"{", "a", "}", "a">>,
     <<"a", "{", "b", "}", " ", "a">>, <<"{", "a", "}", "{", "b", "}", "a">>}

PreserveOpts ==
    {<<>>, <<[opt |-> "Preserve", expr |-> "word"]>>,
     <<[opt |-> "Preserve", expr |-> "brace"]>>}

TextCalls ==
    {Call(t, "text", <<<<0, Len(t)>>>>, o, b, FALSE, FALSE) :
        t \in RangeTexts \cup BraceTexts, o \in PreserveOpts, b \in {"identity", "tr"}}

\* calls whose backend may fail and whose caller may cancel, through the
\* JSON ranger and through the ranger with a buffered range channel
RacingCalls ==
    {Call(d, "json", JSONRanges(d), o, "tr", f, x) :
        d \in {Arr(ValStr(<<"a">>) \o Comma \o ValStr(<<"b">>))},
        o \in ParallelOpts, f \in BOOLEAN, x \in BOOLEAN}
    \cup
    {Call(<<"a", "b">>, "text", <<<<0, 1>>, <<1, 2>>>>, o, "tr", f, x) :
        o \in ParallelOpts, f \in BOOLEAN, x \in BOOLEAN}

\* calls whose ranger sends an error, at once or after a range
FailingCalls ==
    {Call(<<"a", "b">>, "failing", e, o, "tr", FALSE, FALSE) :
        e \in {<<>>, <<<<0, 1>>>>}, o \in ParallelOpts}

\* calls with two Preserve options, in either order
TwoPreserveTexts ==
    {<<"{", "a", "}", "a", "X", "a">>, <<"a", "X", "a", "{", "b", "}", "a">>}

TwoPreserveOpts ==
    {<<[opt |-> "Preserve", expr |-> e1], [opt |-> "Preserve", expr |-> e2]>> :
        e1 \in Exprs, e2 \in Exprs}

TwoPreserveCalls ==
    {Call(t, "text", <<<<0, Len(t)>>>>, o, b, FALSE, FALSE) :
        t \in TwoPreserveTexts, o \in TwoPreserveOpts, b \in {"identity", "tr"}}

Calls ==
    JSONCalls \cup TextCalls \cup RacingCalls \cup FailingCalls \cup TwoPreserveCalls

\* the state in which Translate is called
TrStart ==
    /\ rgPc = "idle"
    /\ rgNext = 1
    /\ ranges = OpenChan
    /\ rangeErrs = "open"
    /\ mainPc = "start"
    /\ rangeErrsNil = FALSE
    /\ translateRangeErrsNil = FALSE
    /\ translations = <<>>
    /\ ret = NoReturn
    /\ chanCap = 0
    /\ translated = OpenChan
    /\ errs = OpenChan
    /\ wk = [w \in 1..MaxParallel |-> Idle("none")]
    /\ closerPc = "none"
    /\ ctxDone = FALSE
    /\ cancelled = "no"
    /\ sent = {}
    /\ failed = FALSE

TrInit ==
    /\ scn \in Calls
    /\ TrStart

TrIdle ==
    /\ scn = Call(<<>>, "text", <<>>, <<>>, "identity", FALSE, FALSE)
    /\ rgPc = "idle"
    /\ rgNext = 1
    /\ ranges = OpenChan
    /\ rangeErrs = "open"
    /\ mainPc = "idle"
    /\ rangeErrsNil = FALSE
    /\ translateRangeErrsNil = FALSE
    /\ translations = <<>>
    /\ ret = NoReturn
    /\ chanCap = 0
    /\ translated = OpenChan
    /\ errs = OpenChan
    /\ wk = [w \in 1..MaxParallel |-> Idle("none")]
    /\ closerPc = "none"
    /\ ctxDone = FALSE
    /\ cancelled = "no"
    /\ sent = {}
    /\ failed = FALSE

Init ==
    /\ TrInit
    /\ ReplIdle
    /\ LexIdle
    /\ PresIdle
    /\ HtmlIdle
    /\ ExtIdle
    /\ DiffIdle
    /\ TokIdle
    /\ GcIdle
    /\ runeSlack \in 0..MaxSlack

Next ==
    \/ CallRanges
    \/ RangerSend
    \/ RangerCloseErrs
    \/ RangerCloseRanges
    \/ TranslateRanges
    \/ \E w \in DOMAIN wk : WorkerCtxDone(w)
    \/ \E w \in DOMAIN wk : WorkerRangesClosed(w)
    \/ \E w \in DOMAIN wk : WorkerReceive(w)
    \/ \E w \in DOMAIN wk : BackendReturn(w)
    \/ \E w \in DOMAIN wk : BackendFail(w)
    \/ \E w \in DOMAIN wk : WorkerSend(w)
    \/ \E w \in DOMAIN wk : WorkerSendErr(w)
    \/ CloseErrs
    \/ CloseTranslated
    \/ SelectCtxDone
    \/ SelectRangeErr
    \/ SelectRangeErrsClosed
    \/ SelectTranslateRangeErr
    \/ \E w \in DOMAIN wk : SelectTranslateRangeErrFrom(w)
    \/ SelectTranslateRangeErrsClosed
    \/ SelectTranslatedRange
    \/ \E w \in DOMAIN wk : SelectTranslatedRangeFrom(w)
    \/ SelectTranslatedRangesClosed
    \/ CancelContext

Spec == Init /\ [][Next]_vars

\* the steps of each goroutine; a step that hands a value over an
\* unbuffered channel is a step of the receiver
RangerNext == RangerSend \/ RangerCloseErrs \/ RangerCloseRanges

WorkerNext(w) ==
    \/ WorkerCtxDone(w)
    \/ WorkerRangesClosed(w)
    \/ WorkerReceive(w)
    \/ WorkerSend(w)
    \/ WorkerSendErr(w)

\* the backend answers the call of worker w or fails it
BackendNext(w) == BackendReturn(w) \/ BackendFail(w)

CloserNext == CloseErrs \/ CloseTranslated

MainNext ==
    \/ CallRanges
    \/ TranslateRanges
    \/ SelectCtxDone
    \/ SelectRangeErr
    \/ SelectRangeErrsClosed
    \/ SelectTranslateRangeErr
    \/ \E w \in DOMAIN wk : SelectTranslateRangeErrFrom(w)
    \/ SelectTranslateRangeErrsClosed
    \/ SelectTranslatedRange
    \/ \E w \in DOMAIN wk : SelectTranslatedRangeFrom(w)
    \/ SelectTranslatedRangesClosed

\* the Go scheduler runs every goroutine that can take a step, and every
\* call of the backend comes back; nothing makes the caller cancel
Fairness ==
    /\ WF_vars(RangerNext)
    /\ \A w \in 1..MaxParallel : WF_vars(WorkerNext(w))
    /\ \A w \in 1..MaxParallel : WF_vars(BackendNext(w))
    /\ WF_vars(CloserNext)
    /\ WF_vars(MainNext)

\* the calls studied under fair scheduling: two ranges through either
\* ranger, every Parallel setting, with and without a failing backend and
\* a cancelling caller, and the rangers that send an error
FairCalls == RacingCalls \cup FailingCalls

FairInit ==
    /\ scn \in FairCalls
    /\ TrStart
    /\ ReplIdle
    /\ LexIdle
    /\ PresIdle
    /\ HtmlIdle
    /\ ExtIdle
    /\ DiffIdle
    /\ TokIdle
    /\ GcIdle
    /\ runeSlack = 0

SpecFair == FairInit /\ [][Next]_vars /\ Fairness

----------------------------------------------------------------------------
(* The specifications.                                                     *)

SpecReplaceInit ==
    /\ TrIdle
    /\ ReplInit
    /\ LexIdle
    /\ PresIdle
    /\ HtmlIdle
    /\ ExtIdle
    /\ DiffIdle
    /\ TokIdle
    /\ GcIdle
    /\ runeSlack \in 0..MaxSlack

SpecReplaceNext == CallReplaceMany

SpecReplace == SpecReplaceInit /\ [][SpecReplaceNext]_vars

SpecPreserveInit ==
    /\ TrIdle
    /\ PresInit
    /\ ReplIdle
    /\ LexIdle
    /\ HtmlIdle
    /\ ExtIdle
    /\ DiffIdle
    /\ TokIdle
    /\ GcIdle
    /\ runeSlack = 0

SpecPreserveNext ==
    \/ CallRegexp
    \/ CallJoin

SpecPreserve == SpecPreserveInit /\ [][SpecPreserveNext]_vars

SpecLexInit ==
    /\ TrIdle
    /\ LexInit
    /\ ReplIdle
    /\ PresIdle
    /\ HtmlIdle
    /\ ExtIdle
    /\ DiffIdle
    /\ TokIdle
    /\ GcIdle
    /\ runeSlack \in 0..MaxSlack

SpecLexNext ==
    \/ LexRun
    \/ RangerReceiveToken
    \/ LexClose
    \/ ReceiveRange
    \/ RangerReturn
    \/ ReplaceRanges

SpecLex == SpecLexInit /\ [][SpecLexNext]_vars

SpecHTMLInit ==
    /\ TrIdle
    /\ HtmlInit
    /\ ReplIdle
    /\ LexIdle
    /\ PresIdle
    /\ ExtIdle
    /\ DiffIdle
    /\ TokIdle
    /\ GcIdle
    /\ runeSlack = 0

SpecHTMLNext ==
    \/ HTMLCancel
    \/ HTMLStopReceiving
    \/ HTMLCtxDone
    \/ HTMLNextToken
    \/ HTMLSendRange
    \/ HTMLReturn

SpecHTML == SpecHTMLInit /\ [][SpecHTMLNext]_vars

\* the steps of the goroutine of the HTML ranger; a send is a step when a
\* receiver is there
HTMLRangerNext == HTMLCtxDone \/ HTMLNextToken \/ HTMLSendRange \/ HTMLReturn

\* the documents studied under fair scheduling, without WithAttribute: a
\* tag around a text, and texts around a token without ranges
HTMLFairDocs ==
    {<<>>}
        \cup {<<StartTagToken(<<"p">>, <<HTMLAttr("k", "x"), HTMLAttr("t", "x")>>, "double"),
                x, EndTagToken(<<"p">>)>> : x \in HTMLTexts}
        \cup {<<x, o, y>> : x \in HTMLTexts, o \in HTMLOthers, y \in HTMLTexts}

SpecHTMLFairInit ==
    /\ SpecHTMLInit
    /\ hDoc \in HTMLFairDocs
    /\ hAllowed = {}

\* the Go scheduler runs the ranger goroutine whenever it can take a step
SpecHTMLFair == SpecHTMLFairInit /\ [][SpecHTMLNext]_vars /\ WF_vars(HTMLRangerNext)

SpecExtractInit ==
    /\ TrIdle
    /\ ExtInit
    /\ DiffIdle
    /\ TokIdle
    /\ GcIdle
    /\ ReplIdle
    /\ LexIdle
    /\ PresIdle
    /\ HtmlIdle
    /\ runeSlack = 0

SpecExtractNext == CallExtract

SpecExtract == SpecExtractInit /\ [][SpecExtractNext]_vars

SpecDiffInit ==
    /\ TrIdle
    /\ DiffInit
    /\ TokIdle
    /\ GcIdle
    /\ ReplIdle
    /\ LexIdle
    /\ PresIdle
    /\ HtmlIdle
    /\ ExtIdle
    /\ runeSlack = 0

SpecDiffNext == CallJSONDiff

SpecDiff == SpecDiffInit /\ [][SpecDiffNext]_vars

SpecTokensInit ==
    /\ TrIdle
    /\ TokInit
    /\ ReplIdle
    /\ LexIdle
    /\ PresIdle
    /\ HtmlIdle
    /\ ExtIdle
    /\ DiffIdle
    /\ GcIdle
    /\ runeSlack = 0

SpecTokensNext == LexStep \/ LexCloseTokens \/ DescStep \/ DescCloseTokens

SpecTokens == SpecTokensInit /\ [][SpecTokensNext]_vars

SpecGcloudInit ==
    /\ TrIdle
    /\ TokIdle
    /\ ReplIdle
    /\ LexIdle
    /\ PresIdle
    /\ HtmlIdle
    /\ ExtIdle
    /\ DiffIdle
    /\ GcInit
    /\ runeSlack = 0

SpecGcloudNext ==
    \/ \E c \in Callers : GcRLock(c)
    \/ \E c \in Callers : GcInitialized(c)
    \/ \E c \in Callers : GcLock(c)
    \/ \E c \in Callers : GcLockAcquire(c)
    \/ \E c \in Callers : GcTokenSource(c)
    \/ \E c \in Callers : GcNewClient(c)
    \/ \E c \in Callers : GcUse(c)

SpecGcloud == SpecGcloudInit /\ [][SpecGcloudNext]_vars

SpecReplaceOneInit ==
    /\ TrIdle
    /\ ReplaceInit
    /\ DiffIdle
    /\ TokIdle
    /\ GcIdle
    /\ ReplIdle
    /\ LexIdle
    /\ PresIdle
    /\ HtmlIdle
    /\ runeSlack = 0

SpecReplaceOneNext == CallReplace

SpecReplaceOne == SpecReplaceOneInit /\ [][SpecReplaceOneNext]_vars

----------------------------------------------------------------------------
(* What a splice of non-overlapping replacements is, stated on bytes and   *)
(* without reference to ReplaceMany.                                       *)

\* the range lies in the input, offsets counted in bytes
InBounds(input, r) == r[1] <= r[2] /\ r[2] <= ByteLen(input)

\* no two ranges of the list share a position: of any two, one ends at or
\* before the start of the other
NonOverlapping(list) ==
    \A i, j \in 1..Len(list) :
        i # j => \/ list[i].range[2] <= list[j].range[1]
                 \/ list[j].range[2] <= list[i].range[1]

ValidRepls(input, list) ==
    /\ \A i \in 1..Len(list) : InBounds(input, list[i].range)
    /\ NonOverlapping(list)

\* each range of the list starts at or after the end of the one before
Sequential(list) ==
    \A i \in 1..(Len(list) - 1) : list[i].range[2] <= list[i + 1].range[1]

\* the bytes b from offset from on, with the ranges of a sequential list
\* replaced by the bytes of their texts
RECURSIVE SpliceInOrder(_, _, _)
SpliceInOrder(b, list, from) ==
    IF list = <<>> THEN Slice(b, from, Len(b))
    ELSE Slice(b, from, Head(list).range[1])
            \o Bytes(Head(list).text)
            \o SpliceInOrder(b, Tail(list), Head(list).range[2])

\* the outputs the splice may have: one per sequential order of the list
\* (only insertions at one position can be ordered in more than one way)
ExpectedOutputs(input, list) ==
    {SpliceInOrder(Bytes(input), Permute(list, p), 0) :
        p \in {q \in Perms(Len(list)) : Sequential(Permute(list, q))}}

RECURSIVE SumLenDiff(_)
SumLenDiff(list) ==
    IF list = <<>> THEN 0
    ELSE ByteLen(Head(list).text) - RangeLen(Head(list).range)
            + SumLenDiff(Tail(list))

\* C2: for ranges in bounds and pairwise non-overlapping (zero-length ranges
\* allowed) ReplaceMany returns the input with each range replaced by its
\* text, every byte outside the ranges unchanged and in its original order,
\* and an output of len(input) + sum(len(text) - range length) bytes.
C2_ReplaceManySplices ==
    (rPc = "done" /\ ValidRepls(rInput, rRepls)) =>
        /\ rOut.err = "nil"
        /\ Bytes(rOut.out) \in ExpectedOutputs(rInput, rRepls)
        /\ ByteLen(rOut.out) = ByteLen(rInput) + SumLenDiff(rRepls)

\* the same statement for inputs of one-byte characters only
C2_ReplaceManySplicesAscii ==
    (\A i \in 1..Len(rInput) : Width(rInput[i]) = 1) => C2_ReplaceManySplices

\* the ranges of the list start at pairwise different offsets
DistinctStarts(list) ==
    \A i, j \in 1..Len(list) : i # j => list[i].range[1] # list[j].range[1]

IsRangeError(err) ==
    err \in {"negative length range", "range start after input end",
             "range end after input end"}

\* two ranges of the list share a position: in start order one of them
\* starts before the one before it ends
Overlapping(list) == ~NonOverlapping(list)

\* C19: ReplaceMany returns a RangeError, and no spliced output, whenever
\* two of the given ranges overlap, i.e. when in start order some range
\* starts before the previous one ends.
C19_OverlapRejected ==
    (rPc = "done" /\ Overlapping(rRepls)) =>
        IsRangeError(rOut.err) /\ rOut.out = <<>>

\* what Extract is to return for a range of byte offsets
ExpectedExtract(input, r) ==
    IF r[2] < r[1] THEN [text |-> <<>>, err |-> "negative length range"]
    ELSE IF r[1] > ByteLen(input)
         THEN [text |-> <<>>, err |-> "range start after input end"]
    ELSE IF r[2] > ByteLen(input)
         THEN [text |-> <<>>, err |-> "range end after input end"]
    ELSE [text |-> Slice(Bytes(input), r[1], r[2]), err |-> "nil"]

\* C20: Extract(input, r) returns exactly input[r.start..r.end) when
\* r.start <= r.end <= len(input), the empty text for a zero-length range,
\* and otherwise a RangeError and no text: negative length if
\* r.end < r.start, start past end if r.start > len(input), end past end if
\* r.end > len(input).
C20_ExtractReturnsRangeOrError ==
    ePc = "done" =>
        /\ eOut.err = ExpectedExtract(eInput, eRange).err
        /\ Bytes(eOut.text) = ExpectedExtract(eInput, eRange).text

\* the same for inputs of one-byte runes and ranges that are not empty and
\* start before the end of the input
ExtractReturnsRangeOrErrorInside ==
    (/\ ePc = "done"
     /\ \A i \in 1..Len(eInput) : Width(eInput[i]) = 1
     /\ eRange[1] # eRange[2]
     /\ eRange[1] < Len(eInput))
        => /\ eOut.err = ExpectedExtract(eInput, eRange).err
           /\ Bytes(eOut.text) = ExpectedExtract(eInput, eRange).text

\* C21: Replace(text, repl, r) returns text[:r.start] + repl + text[r.end:]
\* when r is in bounds, and for every r with negative length or with start
\* or end beyond len(text) it returns a RangeError and the unchanged text,
\* the error conditions of Extract, without faulting.
C21_ReplaceSplicesOrRejects ==
    ePc = "replaced" =>
        LET b == Bytes(eInput) IN
        IF eRange[1] <= eRange[2] /\ eRange[2] <= Len(b)
        THEN /\ eOut.err = "nil"
             /\ eOut.text = Slice(b, 0, eRange[1]) \o Bytes(eRepl) \o Slice(b, eRange[2], Len(b))
        ELSE /\ eOut.err \notin {"nil", "panic"}
             /\ eOut.text = b

\* the same for ranges in bounds and for ranges longer than the text
ReplaceSplicesInBoundsRejectsLonger ==
    (/\ ePc = "replaced"
     /\ \/ eRange[1] <= eRange[2] /\ eRange[2] <= ByteLen(eInput)
        \/ RangeLen(eRange) > ByteLen(eInput))
        => LET b == Bytes(eInput) IN
           IF eRange[2] <= Len(b)
           THEN /\ eOut.err = "nil"
                /\ eOut.text = Slice(b, 0, eRange[1]) \o Bytes(eRepl) \o Slice(b, eRange[2], Len(b))
           ELSE /\ eOut.err = "range out of bounds"
                /\ eOut.text = b

----------------------------------------------------------------------------
(* Claims about the JSON ranger.                                           *)

\* the byte offsets lo..hi-1 of the document that carry the role
BytesWithRole(d, lo, hi, role) ==
    {k \in lo..(hi - 1) : k < Len(ByteRoles(d)) /\ ByteRoles(d)[k + 1] = role}

\* the rune offsets lo..hi-1 of the document that carry the role
RunesWithRole(d, lo, hi, role) ==
    {k \in lo..(hi - 1) : k < Len(d) /\ d[k + 1].role = role}

\* no range the ranger has emitted, taken as byte offsets, reaches into a
\* property key or the colon after it
RangesAvoidKeys ==
    /\ \A i \in 1..Len(got) :
          BytesWithRole(doc, got[i].range[1], got[i].range[2], "key") = {}
    /\ rangerPc = "send" =>
          BytesWithRole(doc, rangerRange[1], rangerRange[2], "key") = {}

\* no rune of a property key is extracted for the backend
KeysNotExtracted ==
    \A i \in 1..Len(got) :
        got[i].ext.err = "nil" /\ got[i].ext.text # <<>> =>
            RunesWithRole(doc, got[i].range[1], got[i].range[2], "key") = {}

\* C1: no range emitted by the JSON ranger overlaps the region from a
\* property key's opening quote through the colon that follows it, so no
\* key is ever extracted, sent to the backend or replaced.
C1_KeysNeverTranslated == RangesAvoidKeys /\ KeysNotExtracted

\* C10: offsets are byte positions in every component: a range emitted by
\* the JSON ranger lies between the two quotes of a string value, Extract
\* returns exactly the bytes of the input in that range, and ReplaceMany
\* replaces exactly those bytes.
C10_OffsetsAreBytePositions ==
    /\ \A i \in 1..Len(got) :
        LET r == got[i].range IN
          /\ r[1] >= 1 /\ r[1] <= r[2] /\ r[2] < ByteLen(Runes(doc))
          /\ ByteRoles(doc)[r[1]] = "vq"
          /\ ByteRoles(doc)[r[2] + 1] = "vq"
          /\ \A k \in r[1]..(r[2] - 1) : ByteRoles(doc)[k + 1] = "vb"
          /\ got[i].ext.err = "nil"
          /\ Bytes(got[i].ext.text) = Slice(Bytes(Runes(doc)), r[1], r[2])
    /\ lexOut.err # "none" =>
          /\ lexOut.err = "nil"
          /\ Bytes(lexOut.out) =
                SpliceInOrder(Bytes(Runes(doc)),
                    [i \in 1..Len(got) |-> [range |-> got[i].range, text |-> Mark]], 0)

\* the ranges the ranger emits lie between the quotes of string values
\* when taken as byte offsets
RangesAreValueBytes ==
    \A i \in 1..Len(got) :
        LET r == got[i].range IN
          /\ r[1] >= 1 /\ r[1] <= r[2] /\ r[2] < ByteLen(Runes(doc))
          /\ ByteRoles(doc)[r[1]] = "vq"
          /\ ByteRoles(doc)[r[2] + 1] = "vq"
          /\ \A k \in r[1]..(r[2] - 1) : ByteRoles(doc)[k + 1] = "vb"

\* the string values of a document in document order, each as the token
\* that stands for it: the byte offset of its opening quote and the
\* literal with both quotes
RECURSIVE StringValues(_, _)
StringValues(d, i) ==
    IF i > Len(d) THEN <<>>
    ELSE IF d[i].role # "vq" THEN StringValues(d, i + 1)
    ELSE LET j == CHOOSE j \in (i + 1)..Len(d) :
                    /\ d[j].role = "vq"
                    /\ \A m \in (i + 1)..(j - 1) : d[m].role # "vq"
         IN <<[type |-> "String",
               pos |-> ByteLen(SubSeq(Runes(d), 1, i - 1)),
               value |-> SubSeq(Runes(d), i, j)]>>
                \o StringValues(d, j + 1)

\* the String tokens the ranger has received
TokensReceived == Len(got) + (IF rangerPc = "send" THEN 1 ELSE 0)

OrderedWithin(rs, len) ==
    /\ \A i \in 1..Len(rs) : 0 <= rs[i][1] /\ rs[i][1] <= rs[i][2] /\ rs[i][2] <= len
    /\ \A i, j \in 1..Len(rs) :
          i < j => rs[i][1] < rs[j][1] /\ rs[i][2] <= rs[j][1]

\* C17: the ranges emitted by one run of the JSON ranger or of the HTML
\* ranger come in strictly increasing document order, are pairwise
\* non-overlapping, and each satisfies 0 <= start <= end <= len(input).
C17_RangesOrderedAndInBounds ==
    /\ OrderedWithin([i \in 1..Len(got) |-> got[i].range], ByteLen(Runes(doc)))
    /\ OrderedWithin(hGot, ByteLen(HTMLInput(hDoc)))

\* the same for the JSON ranger alone
JSONRangesOrderedAndInBounds ==
    OrderedWithin([i \in 1..Len(got) |-> got[i].range], ByteLen(Runes(doc)))

\* the same for the HTML ranger without attribute options
HTMLTextRangesOrderedAndInBounds ==
    hAllowed = {} => OrderedWithin(hGot, ByteLen(HTMLInput(hDoc)))

\* the same for the HTML ranger on tags written as Token.String writes them
HTMLRangesOrderedOnCanonicalTags ==
    (\A k \in 1..Len(hDoc) : hDoc[k].raw = TokenString(hDoc[k]))
        => OrderedWithin(hGot, ByteLen(HTMLInput(hDoc)))

----------------------------------------------------------------------------
(* Claims about the HTML ranger.  What the ranger is to emit is computed   *)
(* from the raw bytes of the tokens, without reference to Token.String or  *)
(* to attrRE.                                                              *)

IsTag(tok) == tok.type \in {"StartTag", "SelfClosingTag"}

\* the offset of token number k in the input
OffsetOf(tokens, k) == ByteLen(HTMLInput(SubSeq(tokens, 1, k - 1)))

\* the names the configured selectors return for a tag
SelectedNames(tok, sels) ==
    {f.name : f \in {g \in sels : g.tags = {} \/ tok.data \in g.tags}}

\* the attributes of a tag, by number, that a configured selector returns
SelectedAttrs(tok, sels) ==
    {i \in 1..Len(tok.attr) : tok.attr[i].key \in SelectedNames(tok, sels)}

\* the bytes of the raw tag before the value of attribute number i and the
\* range of that value in the raw tag
BeforeValue(tok, i) ==
    1 + ByteLen(tok.data)
        + ByteLen(RawAttrs(SubSeq(tok.attr, 1, i - 1), tok.style))
        + (IF tok.style = "spaced" THEN 2 ELSE 1)
        + ByteLen(tok.attr[i].key)
        + (IF tok.style = "bare" THEN 1 ELSE 2)

RawValueRange(tok, i) ==
    <<BeforeValue(tok, i), BeforeValue(tok, i) + ByteLen(tok.attr[i].val)>>

\* the ranges of the values of the selected attributes of a tag read at
\* offset pos, in the order of the attributes
RECURSIVE ValueRangesFrom(_, _, _, _)
ValueRangesFrom(tok, sels, pos, i) ==
    IF i > Len(tok.attr) THEN <<>>
    ELSE (IF i \in SelectedAttrs(tok, sels)
          THEN <<<<RawValueRange(tok, i)[1] + pos, RawValueRange(tok, i)[2] + pos>>>>
          ELSE <<>>)
         \o ValueRangesFrom(tok, sels, pos, i + 1)

\* the ranges to emit for the first n tokens of a document
RECURSIVE ExpectedRanges(_, _, _)
ExpectedRanges(tokens, sels, n) ==
    IF n = 0 THEN <<>>
    ELSE ExpectedRanges(tokens, sels, n - 1)
         \o (IF IsTag(tokens[n])
             THEN ValueRangesFrom(tokens[n], sels, OffsetOf(tokens, n), 1)
             ELSE IF tokens[n].type = "Text" /\ \E k \in 1..Len(tokens[n].data) :
                                                    ~IsSpace(tokens[n].data[k])
             THEN <<<<OffsetOf(tokens, n), OffsetOf(tokens, n) + ByteLen(tokens[n].raw)>>>>
             ELSE <<>>)

\* the ranges sent and about to be sent
Emitted == hGot \o hPending

\* every tag of the document has its attributes written name="value"
WrittenWithQuotes(tokens) ==
    \A k \in 1..Len(tokens) : IsTag(tokens[k]) => tokens[k].style \in {"double", "spaced"}

\* C22: for every start or self-closing tag and every selected attribute
\* written name="value", the HTML ranger emits a range whose bytes in the
\* input are exactly that attribute's value, the text between the quotes
\* after name=, and never bytes of an attribute name, a quote or another
\* attribute.
C22_AttributeRangeIsValue ==
    (hPc \in {"loop", "send"} /\ WrittenWithQuotes(hDoc)) =>
        Emitted = ExpectedRanges(hDoc, hAllowed,
                                 IF hPc = "send" THEN hIdx ELSE hIdx - 1)

\* the same for tags written as Token.String writes them, with attribute
\* names of word characters and values that need no escaping and do not
\* occur in the attribute before the value
PlainAttr(a) ==
    /\ \A k \in 1..Len(a.key) : IsWordByte(<<a.key[k], 1>>)
    /\ EscapeString(a.val) = a.val
    /\ Index(a.key \o <<"=", "\"">>, a.val) = -1

AttributeRangeIsValuePlain ==
    (/\ hPc \in {"loop", "send"}
     /\ \A k \in 1..Len(hDoc) :
            IsTag(hDoc[k]) =>
                /\ hDoc[k].style = "double"
                /\ \A i \in 1..Len(hDoc[k].attr) : PlainAttr(hDoc[k].attr[i]))
        => Emitted = ExpectedRanges(hDoc, hAllowed,
                                    IF hPc = "send" THEN hIdx ELSE hIdx - 1)

C24_OnlySelectedAttributes ==
    (hPc = "send" /\ IsTag(hDoc[hIdx])) =>
        /\ hAllowed # {}
        /\ Len(hPending) <= Cardinality(SelectedAttrs(hDoc[hIdx], hAllowed))

\* the same for tags whose attribute names consist of word characters
OnlySelectedAttributesWordNames ==
    (/\ hPc = "send"
     /\ IsTag(hDoc[hIdx])
     /\ \A i \in 1..Len(hDoc[hIdx].attr) :
            \A k \in 1..Len(hDoc[hIdx].attr[i].key) :
                IsWordByte(<<hDoc[hIdx].attr[i].key[k], 1>>))
        => /\ hAllowed # {}
           /\ Len(hPending) <= Cardinality(SelectedAttrs(hDoc[hIdx], hAllowed))

----------------------------------------------------------------------------
(* Claims about the goroutines of Translate under fair scheduling.         *)

\* C26: every Translate call eventually returns, for every Parallel
\* setting, when the ranger goes on whenever it can and every backend call
\* returns: no interleaving of ranger, workers, closing goroutine and
\* collector deadlocks.
C26_TranslateReturns == <>(mainPc = "returned")

\* Translate has returned the result of ReplaceMany after two workers
\* handed over their translations
C26_Witness ==
    /\ mainPc = "returned"
    /\ ret.err = "nil"
    /\ Workers(Cfg) >= 2
    /\ Len(translations) >= 2

\* every range the ranger emits is in the translations once
EachRangeOnce ==
    /\ Len(translations) = Len(Emit)
    /\ \A i \in 1..Len(Emit) :
          Cardinality({k \in 1..Len(translations) : translations[k].r = Emit[i]}) = 1

ReturnedNilWithWorkers ==
    /\ mainPc = "returned"
    /\ ret.err = "nil"
    /\ Workers(Cfg) >= 1

\* C27: when Translate with Parallel(n >= 1) returns a nil error, every
\* range the ranger emitted has been received by one worker, translated
\* once, and contributes exactly one replacement to the single ReplaceMany
\* call; no range is dropped or applied twice.
C27_EveryRangeReplacedOnce == ReturnedNilWithWorkers => EachRangeOnce

\* the same for calls whose backend does not fail and whose caller does
\* not cancel
EveryRangeReplacedOnceUndisturbed ==
    (ReturnedNilWithWorkers /\ ~scn.mayFail /\ ~scn.mayCancel) => EachRangeOnce

\* the same for calls whose caller does not cancel, through rangers with
\* an unbuffered range channel
EveryRangeReplacedOnceUnbuffered ==
    (ReturnedNilWithWorkers /\ ~scn.mayCancel /\ RangeCap = 0) => EachRangeOnce

\* every worker goroutine has returned and the closing goroutine has
\* closed both channels
PoolTerminated ==
    /\ \A w \in DOMAIN wk : wk[w].pc \in {"none", "done"}
    /\ closerPc = "done"

\* C28: after Translate has returned for any reason (success, error or
\* cancellation), every worker goroutine and the goroutine that closes the
\* result channels eventually terminate; none remains blocked forever
\* sending on the translations or errors channel.
C28_PoolTerminatesAfterReturn == (mainPc = "returned") ~> PoolTerminated

\* the same after a return with a nil error
PoolTerminatesAfterSuccess ==
    (mainPc = "returned" /\ ret.err = "nil") ~> PoolTerminated

\* C29: after the context given to Ranges is cancelled, the JSON ranger
\* and the HTML ranger each eventually stop and close their range channel,
\* even when nothing receives from their channels any more; neither blocks
\* forever on a channel send.  Stated for the ranger goroutine of
\* format/json that Translate starts, whose context is cancelled by the
\* caller or by the return of Translate.
C29_RangerClosesAfterCancel ==
    (ctxDone /\ scn.ranger \in {"json", "failing"}) ~> ranges.closed

\* the same for the HTML ranger
HTMLRangerClosesAfterCancel == hCtxDone ~> hClosed

\* the HTML ranger closes its channels after the cancellation if its
\* channels are received from until then
HTMLRangerClosesWhileReceived == hCtxDone ~> (hClosed \/ ~hRecv)

\* C30: with Parallel(n <= 0) every range the ranger emits is received
\* and discarded, so a ranger that sends on an unbuffered range channel
\* still runs to completion and closes its channel.  Stated for the ranger
\* of format/json on a valid document.
C30_UnbufferedRangerCompletesWithoutWorkers ==
    (Workers(Cfg) = 0 /\ scn.ranger = "json" /\ rgPc = "run") ~> ranges.closed

\* what happens instead: without workers no range is ever taken from an
\* unbuffered range channel
NoRangeReceivedWithoutWorkers ==
    (Workers(Cfg) = 0 /\ RangeCap = 0) => rgNext = 1

----------------------------------------------------------------------------
(* Claims about JSONDiff.                                                  *)

\* the paths of the values below the map m that are no objects
RECURSIVE LeafPaths(_)
LeafPaths(m) ==
    UNION {IF m[k].kind = "object"
           THEN {<<k>> \o p : p \in LeafPaths(m[k].m)}
           ELSE {<<k>>} : k \in DOMAIN m}

\* the map m has an entry at the path
RECURSIVE HasEntry(_, _)
HasEntry(m, path) ==
    /\ Head(path) \in DOMAIN m
    /\ \/ Len(path) = 1
       \/ m[Head(path)].kind = "object" /\ HasEntry(m[Head(path)].m, Tail(path))

\* the target holds a value that is no object where the source holds an
\* object, at the top or in objects present on both sides
RECURSIVE NotAMap(_, _)
NotAMap(source, target) ==
    \E k \in DOMAIN source \cap DOMAIN target :
        /\ source[k].kind = "object"
        /\ \/ target[k].kind # "object"
           \/ NotAMap(source[k].m, target[k].m)

\* C25: JSONDiff(source, target) returns exactly the paths of the
\* non-object values that exist in source but have no entry at the same
\* path in target, descending into objects present on both sides, each path
\* once; it returns an error when target holds a non-object where source
\* holds an object.
C25_DiffIsMissingLeafPaths ==
    jPc = "done" =>
        IF NotAMap(jSource, jTarget)
        THEN jOut.err # "nil"
        ELSE /\ jOut.err = "nil"
             /\ {jOut.paths[i] : i \in 1..Len(jOut.paths)} =
                    {p \in LeafPaths(jSource) : ~HasEntry(jTarget, p)}
             /\ \A i, j \in 1..Len(jOut.paths) : i # j => jOut.paths[i] # jOut.paths[j]

\* JSONDiff has returned the paths below an object the target lacks and a
\* path below an object present on both sides
C25_Witness ==
    /\ jPc = "done"
    /\ jOut.err = "nil"
    /\ \E i, j \in 1..Len(jOut.paths) :
          /\ Len(jOut.paths[i]) = 2
          /\ Len(jOut.paths[j]) = 2
          /\ Head(jOut.paths[i]) \notin DOMAIN jTarget
          /\ Head(jOut.paths[j]) \in DOMAIN jTarget

----------------------------------------------------------------------------
(* Claims about Translator.Translate.                                      *)

Returned == mainPc = "returned"

\* the calls of the backend in progress
InFlight == Cardinality({w \in DOMAIN wk : wk[w].pc = "call"})

\* C3: with no Preserve expression, no cancellation and a backend that
\* returns every text unchanged, Translate returns exactly the input and a
\* nil error, for every JSON input the ranger accepts and every Parallel
\* setting.
C3_IdentityBackendRoundTrip ==
    (/\ Returned
     /\ scn.ranger = "json"
     /\ scn.backend = "identity"
     /\ Cfg.preserve = "none"
     /\ cancelled = "no")
        => ret.err = "nil" /\ Bytes(ret.out) = Bytes(scn.input)

\* the same for documents of one-byte runes whose string values end in at
\* most one white-space rune
IdentityRoundTripPlain ==
    (/\ Returned
     /\ scn.ranger = "json"
     /\ scn.backend = "identity"
     /\ Cfg.preserve = "none"
     /\ cancelled = "no"
     /\ \A k \in 1..Len(scn.input) : Width(scn.input[k]) = 1
     /\ \A k \in 1..(Len(scn.input) - 1) :
            ~(IsSpace(scn.input[k]) /\ IsSpace(scn.input[k + 1])))
        => ret.err = "nil" /\ ret.out = scn.input

\* what a part of a range becomes: unchanged if it is punctuation, else
\* the backend's answer to the trimmed part between its white space
TranslatedPart(part) ==
    IF part = <<>> THEN <<>>
    ELSE IF isPunctuation(TrimPart(part).part) THEN part
    ELSE Rebuilt(part, Translation(scn.backend, TrimPart(part).part))

\* the text from offset from on, every match verbatim at its place between
\* the translated parts
RECURSIVE MatchesInPlace(_, _, _)
MatchesInPlace(text, matches, from) ==
    IF matches = <<>> THEN TranslatedPart(Slice(text, from, Len(text)))
    ELSE TranslatedPart(Slice(text, from, Head(matches)[1]))
            \o Slice(text, Head(matches)[1], Head(matches)[2])
            \o MatchesInPlace(text, Tail(matches), Head(matches)[2])

\* no text given to the backend contains a match of the Preserve expression
NoMatchSentToBackend ==
    Cfg.preserve # "none" =>
        \A t \in sent : FindAllStringIndex(Cfg.preserve, t) = <<>>

\* every translated range holds the matches of its text verbatim and in place
MatchesReinserted ==
    Cfg.preserve # "none" =>
        \A k \in 1..Len(translations) :
            LET text == Extract(scn.input, translations[k].r).text IN
            translations[k].text =
                MatchesInPlace(text, FindAllStringIndex(Cfg.preserve, text), 0)

\* C4: with a Preserve expression configured, no backend call receives text
\* containing a match, and every match appears verbatim in the translated
\* range at its original place among the translated parts, wherever in the
\* range it occurs (start, middle, end, or next to another match).
C4_PreservedMatchesSurvive == NoMatchSentToBackend /\ MatchesReinserted

\* C6: during a Translate call with Parallel(n), n = 1 when the option is
\* absent, the number of backend calls in progress at the same instant
\* never exceeds max(n, 0).
C6_ParallelismBound == InFlight <= Max(Cfg.parallel, 0)

\* two calls of the backend are in progress under Parallel(2)
C6_Witness == Cfg.parallel = 2 /\ InFlight = 2

\* C7: if a backend call made during a Translate call returns an error,
\* the Translate call returns a non-nil error, whether or not the ranger's
\* range channel is buffered.
C7_BackendErrorReturned == (Returned /\ failed) => ret.err # "nil"

\* the same when the channels of translateRanges have no buffer
BackendErrorReturnedUnbuffered ==
    (Returned /\ failed /\ chanCap = 0) => ret.err # "nil"

\* C8: if the caller's context is cancelled before all ranges have been
\* translated, Translate returns the context error; it never returns a nil
\* error with a document in which only some of the ranges were replaced.
C8_CancelReturnsContextError ==
    (Returned /\ cancelled = "early") =>
        /\ ret.err = "context canceled"
        /\ ~(ret.err = "nil" /\ Len(translations) < Len(Emit))

\* after a cancellation that came before all ranges were translated, no
\* call with at least one worker returns a nil error and a document with
\* only some ranges replaced
NoPartialDocumentAfterCancel ==
    (Returned /\ cancelled = "early" /\ Cfg.parallel >= 1 /\ ret.err = "nil")
        => Len(translations) = Len(Emit)

\* the position of the first and of the last rune of s that is no white
\* space; Len(s) + 1 and Len(s) if s holds white space only
FirstNonSpace(s) ==
    IF \E k \in 1..Len(s) : ~IsSpace(s[k])
    THEN CHOOSE k \in 1..Len(s) :
            ~IsSpace(s[k]) /\ \A j \in 1..(k - 1) : IsSpace(s[j])
    ELSE Len(s) + 1

LastNonSpace(s) ==
    IF \E k \in 1..Len(s) : ~IsSpace(s[k])
    THEN CHOOSE k \in 1..Len(s) :
            ~IsSpace(s[k]) /\ \A j \in (k + 1)..Len(s) : IsSpace(s[j])
    ELSE Len(s)

\* the white space before, the text between and the white space after
SpaceBefore(s) == SubSeq(s, 1, FirstNonSpace(s) - 1)

Trimmed(s) == SubSeq(s, FirstNonSpace(s), LastNonSpace(s))

SpaceAfter(s) == SubSeq(s, LastNonSpace(s) + 1, Len(s))

OnlyPunctuation(s) == s # <<>> /\ \A k \in 1..Len(s) : IsPunct(s[k])

\* the text of the k-th translated range as it stands in the input
TextOf(k) == Extract(scn.input, translations[k].r).text

\* C11: the text handed to the backend is the part without its leading and
\* trailing white space, and the part written to the output is the leading
\* white space, the backend's result, the trailing white space, each run in
\* its original order.  Without a Preserve expression a range is one part.
C11_WhitespaceReinstated ==
    Cfg.preserve = "none" =>
        /\ \A t \in sent : \E k \in 1..Len(Emit) :
                t = Trimmed(Extract(scn.input, Emit[k]).text)
        /\ \A k \in 1..Len(translations) :
                ~OnlyPunctuation(Trimmed(TextOf(k))) =>
                    translations[k].text =
                        SpaceBefore(TextOf(k))
                            \o Translation(scn.backend, Trimmed(TextOf(k)))
                            \o SpaceAfter(TextOf(k))

\* the same for parts that end in at most one white-space rune
WhitespaceReinstatedShortTail ==
    Cfg.preserve = "none" =>
        \A k \in 1..Len(translations) :
            (~OnlyPunctuation(Trimmed(TextOf(k))) /\ Len(SpaceAfter(TextOf(k))) <= 1) =>
                translations[k].text =
                    SpaceBefore(TextOf(k))
                        \o Translation(scn.backend, Trimmed(TextOf(k)))
                        \o SpaceAfter(TextOf(k))

RangerSendsError ==
    /\ scn.ranger = "failing"
    /\ RangerAtError \/ rgPc \in {"closeErrs", "closeRanges", "done"}

\* C13: if the ranger sends an error on its error channel, Translate
\* returns the error wrapped as "get ranges" and never a document with a
\* nil error, under every Parallel setting, n <= 0 included.
C13_RangerErrorReturned ==
    (Returned /\ RangerSendsError) => ret.err = "get ranges"

\* the same with at least one worker
RangerErrorReturnedWithWorkers ==
    (Returned /\ RangerSendsError /\ Cfg.parallel >= 1) => ret.err = "get ranges"

\* the expressions of the Preserve options of the call
GivenExprs ==
    {scn.opts[i].expr : i \in {j \in 1..Len(scn.opts) : scn.opts[j].opt = "Preserve"}}

\* a text without the mark the translating backend puts before its argument
Unmarked(s) == SelectSeq(s, LAMBDA c : c # "T")

\* C14: when the Preserve option is given more than once, the matches of
\* every given pattern are withheld from the backend and reinserted
\* verbatim, the patterns being applied one after the other.
C14_EveryPreservePatternApplied ==
    Cardinality(GivenExprs) > 1 =>
        /\ \A e \in GivenExprs : \A t \in sent : FindAllStringIndex(e, t) = <<>>
        /\ \A k \in 1..Len(translations) : Unmarked(translations[k].text) = TextOf(k)

\* the matches of the pattern given last are withheld from the backend
LastPreservePatternWithheld ==
    Cardinality(GivenExprs) > 1 =>
        \A t \in sent : FindAllStringIndex(scn.opts[Len(scn.opts)].expr, t) = <<>>

----------------------------------------------------------------------------
(* Claims about package preserve.                                          *)

\* C5: for every expression expr and every text t,
\* preserve.Join(preserve.Regexp(expr, t)) equals t.
C5_JoinInvertsRegexp == pPc = "joined" => pJoined = pText

\* Join gives the text back when no match ends the text and no two matches
\* touch (every item has an Index of its own, below the number of parts)
JoinInvertsRegexpInnerMatches ==
    (/\ pPc = "joined"
     /\ \A i \in 1..Len(pItems) : pItems[i].index < Len(pParts)
     /\ \A i, j \in 1..Len(pItems) : i # j => pItems[i].index # pItems[j].index)
        => pJoined = pText

----------------------------------------------------------------------------
(* Claims about the two lexers.                                            *)

\* C31: for every well-formed JSON document, arrays that mix strings with
\* numbers, literals, objects or nested arrays included, the lexer of
\* json/internal/lex and the nested-descent lexer send the same tokens: the
\* same String tokens (Pos and Value) followed by EOF, and no Error token.
C31_LexersEquivalent == (tWF /\ tDescState = "closed") => tOld = tToks

\* the two lexers agree on the documents in which every string is a
\* property key, the value of a property, the whole document without
\* blanks before it, or an element of an array of strings only
LexersAgreeWithoutError ==
    (/\ tWF
     /\ tDescState = "closed"
     /\ \A i \in 1..Len(tOld) : tOld[i].type # "Error"
     /\ ~(tInput # <<>> /\ IsSpace(tInput[1]) /\ tOld[1].type = "String"))
        => tOld = tToks

\* the bytes of the input the lexer has not read or has put back
Unread(l) == ByteLen(l.input) + ByteLen(l.bufferedInput) - l.bufPos

\* C32: when every token is received the lexer sends finitely many tokens
\* (every call of the state function that does not end the loop leaves
\* fewer bytes unread, and the loop once ended closes the channel), the
\* last of them the one EOF token, its Pos the byte length of the input;
\* once the loop has ended no token is sent any more.
C32_StreamEndsWithOneEOF ==
    /\ [][(tState = "lexString") =>
            (tState' = "nil" \/ Unread(tLexer') < Unread(tLexer))]_<<tState, tLexer>>
    /\ [][(tState = "nil") => (tState' = "closed")]_<<tState, tLexer, tToks>>
    /\ [](tState = "closed" =>
            /\ tToks # <<>>
            /\ tToks[Len(tToks)].type = "EOF"
            /\ tToks[Len(tToks)].pos = ByteLen(tInput)
            /\ \A i \in 1..(Len(tToks) - 1) : tToks[i].type = "String")
    /\ [][(tState \in {"nil", "closed"}) => (tToks' = tToks)]_vars

\* the channel is closed after an input with a string in it
C32_Witness ==
    /\ tState = "closed"
    /\ Len(tToks) = 3
    /\ tToks[3].pos = ByteLen(tInput)
    /\ tToks[3].pos > 0

\* the index of the first double quote of s at or after i that no backslash
\* before it consumes, 0 if there is none
RECURSIVE FirstFreeQuote(_, _)
FirstFreeQuote(s, i) ==
    IF i > Len(s) THEN 0
    ELSE IF s[i] = "\\" THEN FirstFreeQuote(s, i + 2)
    ELSE IF s[i] = "\"" THEN i
    ELSE FirstFreeQuote(s, i + 1)

\* C33: the Value of every String token starts with a double quote and
\* ends at the first double quote after it that is not the rune after a
\* backslash; the rune after a backslash is taken whatever it is.
C33_ValueEndsAtFirstFreeQuote ==
    \A i \in 1..Len(tToks) :
        tToks[i].type = "String" =>
            LET v == tToks[i].value IN
            /\ Len(v) >= 2
            /\ v[1] = "\""
            /\ FirstFreeQuote(v, 2) = Len(v)
            /\ v = BytePrefix(ByteSuffix(tInput, tToks[i].pos), ByteLen(v))

\* a string with an escaped quote in it and a string that ends after an
\* escaped backslash have been sent
C33_Witness ==
    /\ \E i \in 1..Len(tToks) :
          tToks[i].type = "String" /\ tToks[i].value = <<"\"", "\\", "\"", "\"">>
    /\ \E i \in 1..Len(tToks) :
          tToks[i].type = "String" /\ tToks[i].value = <<"\"", "\\", "\\", "\"">>

\* the texts of the items with Index i, in the order of the items
RECURSIVE ItemsAt(_, _)
ItemsAt(items, i) ==
    IF items = <<>> THEN <<>>
    ELSE (IF Head(items).index = i THEN Head(items).text ELSE <<>>)
            \o ItemsAt(Tail(items), i)

\* parts i, i+1, ... (counted from 0), each after all the items with its
\* index
RECURSIVE AllItemsBeforeParts(_, _, _)
AllItemsBeforeParts(parts, i, items) ==
    IF i >= Len(parts) THEN <<>>
    ELSE ItemsAt(items, i) \o parts[i + 1] \o AllItemsBeforeParts(parts, i + 1, items)

\* C34: Join(parts, items) is the parts in order, each part i preceded by
\* every item whose Index is i, in the order of the items, also when
\* several items have the same Index; with no items it is the
\* concatenation of the parts.
C34_JoinWritesEveryItemBeforeItsPart ==
    pPc = "joined" =>
        /\ pJoined = AllItemsBeforeParts(pParts, 0, pItems)
        /\ pItems = <<>> => pJoined = Concat(pParts)

\* Join writes every item before its part when no two items have the same
\* Index
JoinWritesItemsOfDistinctIndex ==
    (/\ pPc = "joined"
     /\ \A i, j \in 1..Len(pItems) : i # j => pItems[i].index # pItems[j].index)
        => /\ pJoined = AllItemsBeforeParts(pParts, 0, pItems)
           /\ pItems = <<>> => pJoined = Concat(pParts)

\* the text between the match before match k (the start of the text for
\* the first match) and match k is not empty
GapBefore(matches, k) ==
    (IF k = 1 THEN 0 ELSE matches[k - 1][2]) < matches[k][1]

\* C35: Regexp(expr, text) gives no empty part and one item per match of
\* expr, in the order of the non-overlapping matches, with the matched
\* text; the Index of an item is the number of parts appended before its
\* match (the non-empty texts before it that lie between matches), so the
\* indices never decrease, lie in 0..len(parts), and are 0 for the matches
\* of a run at the start of the text.
C35_RegexpItemsIndexParts ==
    pPc \in {"split", "joined"} =>
        LET matches == FindAllFrom(pExpr, pText, 0) IN
        /\ \A i \in 1..Len(pParts) : pParts[i] # <<>>
        /\ Len(pItems) = Len(matches)
        /\ \A k \in 1..Len(pItems) :
              /\ pItems[k].text = Slice(pText, matches[k][1], matches[k][2])
              /\ pItems[k].index = Cardinality({j \in 1..k : GapBefore(matches, j)})
              /\ pItems[k].index \in 0..Len(pParts)
              /\ k > 1 => pItems[k - 1].index <= pItems[k].index
              /\ (\A j \in 1..k : ~GapBefore(matches, j)) => pItems[k].index = 0

\* two touching matches at the start of the text, a part and a third match
C35_Witness ==
    /\ pPc = "split"
    /\ Len(pItems) = 3
    /\ pItems[1].index = 0
    /\ pItems[2].index = 0
    /\ pItems[3].index = 1
    /\ Len(pParts) = 1

----------------------------------------------------------------------------
(* Claims about the range errors of ReplaceMany.                           *)

\* a range that ends before it starts or ends behind the input
BadRange(input, r) == r[2] < r[1] \/ r[2] > ByteLen(input)

\* C36: when a replacement's range has a negative length or reaches beyond
\* the end of the input, ReplaceMany returns a range error and the empty
\* output, and does not panic.
C36_BadRangeGivesRangeError ==
    (/\ rPc = "done"
     /\ \E i \in 1..Len(rRepls) : BadRange(rInput, rRepls[i].range))
        => /\ rOut.err \notin {"nil", "panic"}
           /\ rOut.out = <<>>

\* a single replacement whose range ends before it starts, with both ends
\* inside the input, gives the range error
NegativeRangeAloneGivesRangeError ==
    (/\ rPc = "done"
     /\ Len(rRepls) = 1
     /\ rRepls[1].range[2] < rRepls[1].range[1]
     /\ rRepls[1].range[1] <= Len(rInput))
        => /\ rOut.err = "negative length range"
           /\ rOut.out = <<>>

\* no list with a range that ends behind the input gives an output
BadRangeGivesNoOutput ==
    (/\ rPc = "done"
     /\ \E i \in 1..Len(rRepls) : BadRange(rInput, rRepls[i].range))
        => /\ rOut.err # "nil"
           /\ rOut.out = <<>>

----------------------------------------------------------------------------
(* Claims about the texts handed to the backend.                           *)

\* C37: no text handed to the backend is empty or starts or ends with
\* white space; a range or part that is empty or white space only leads to
\* no call of the backend.
C37_BackendTextsTrimmedAndNotEmpty ==
    \A t \in sent : t # <<>> /\ ~IsSpace(t[1]) /\ ~IsSpace(t[Len(t)])

\* a text handed to the backend that is not empty neither starts nor ends
\* with white space
BackendTextsTrimmed ==
    \A t \in sent : t # <<>> => ~IsSpace(t[1]) /\ ~IsSpace(t[Len(t)])

----------------------------------------------------------------------------
(* Claims about the closing of the channels.                               *)

\* every worker has returned or was never started
WorkersGone == \A w \in DOMAIN wk : wk[w].pc \in {"none", "done"}

LexerAndRangerCloseAfterLastSend ==
    /\ tokensClosed => lexPc = "done"
    /\ rangesClosed => rangerPc = "done" /\ rangeErrsClosed

----------------------------------------------------------------------------
(* Claims about the gcloud Service.                                        *)

\* C39: when several goroutines call Translate of a Service without a
\* client at the same time, the client is created at most once, and every
\* call that is past ensure uses a client that is not nil.
C39_ClientCreatedOnceAndNeverNil ==
    /\ gCreated <= 1
    /\ \A i \in 1..Len(gUsed) : gUsed[i].client # 0

\* every call past ensure uses a client that is not nil, and a goroutine
\* at its call of the client finds one
CallsUseAClient ==
    /\ \A i \in 1..Len(gUsed) : gUsed[i].client # 0
    /\ \A c \in Callers : gPc[c] = "use" => gClient # 0

\* the mutex is held by one writer or by readers, and init runs under it
MutexExcludes ==
    /\ gMux.writer # 0 => gMux.readers = {}
    /\ \A c \in Callers :
          /\ gPc[c] \in {"tokenSource", "newClient"} <=> gMux.writer = c
          /\ gPc[c] = "initialized" <=> c \in gMux.readers

\* at most as many clients are created as goroutines have found the
\* client nil in initialized
ClientsCreatedByLateCallers ==
    gCreated <= Cardinality({c \in Callers :
                    gPc[c] \in {"use", "done", "failed", "newClient"}})

====
